---- MODULE Spec2Model ----
(***************************************************************************)
(* A model of the spreadsheet calculation engine: the workbook store, the  *)
(* A1 address utilities, the formula parser, the evaluator with its visit  *)
(* set, the function registry and the range API.                           *)
(*                                                                         *)
(* Text is modelled as a sequence of one-character strings, so that        *)
(* upper-casing, stripping of absolute markers, parsing and formatting are *)
(* computed the way the code computes them. Fixed phrases of diagnostic    *)
(* messages are kept as one element of such a sequence.                    *)
(***************************************************************************)
EXTENDS Integers, Sequences, FiniteSets, TLC

VARIABLES sheets, registry, last, nwrites, aiCache, aiInFlight, aiCalls

vars == <<sheets, registry, last, nwrites, aiCache, aiInFlight, aiCalls>>

\* ------------------------------------------------------------------------
\* Characters and text
\* ------------------------------------------------------------------------

UpperLetters == <<"A","B","C","D","E","F","G","H","I","J","K","L","M",
                  "N","O","P","Q","R","S","T","U","V","W","X","Y","Z">>

LowerLetters == <<"a","b","c","d","e","f","g","h","i","j","k","l","m",
                  "n","o","p","q","r","s","t","u","v","w","x","y","z">>

DigitChars == <<"0","1","2","3","4","5","6","7","8","9">>

Range(f) == { f[i] : i \in DOMAIN f }

UpperSet == Range(UpperLetters)
LowerSet == Range(LowerLetters)
DigitSet == Range(DigitChars)

isDigit(ch) == ch \in DigitSet

isAlpha(ch) == ch \in UpperSet \/ ch \in LowerSet

isWs(ch) == ch = " "

LetterIndex(ch) ==
  IF ch \in UpperSet THEN CHOOSE i \in 1..26 : UpperLetters[i] = ch
  ELSE CHOOSE i \in 1..26 : LowerLetters[i] = ch

digitVal(ch) == (CHOOSE i \in 1..10 : DigitChars[i] = ch) - 1

charToUpper(ch) == IF ch \in LowerSet THEN UpperLetters[LetterIndex(ch)] ELSE ch

toUpperCase(s) == [i \in 1..Len(s) |-> charToUpper(s[i])]

\* s.slice(a, b) with 0-based a (inclusive) and b (exclusive)
slice(s, a, b) == SubSeq(s, a + 1, b)

\* every position of ch in s
Positions(s, ch) == { i \in 1..Len(s) : s[i] = ch }

Min(a, b) == IF a <= b THEN a ELSE b
Max(a, b) == IF a >= b THEN a ELSE b

SetMin(S) == CHOOSE x \in S : \A y \in S : x <= y

RECURSIVE trimLeft(_)
trimLeft(s) == IF s # <<>> /\ isWs(Head(s)) THEN trimLeft(Tail(s)) ELSE s

RECURSIVE trimRight(_)
trimRight(s) ==
  IF s # <<>> /\ isWs(s[Len(s)]) THEN trimRight(SubSeq(s, 1, Len(s) - 1)) ELSE s

trim(s) == trimRight(trimLeft(s))

\* parseInt(digits, 10) for a non-empty run of decimal digits
RECURSIVE parseInt(_)
parseInt(ds) ==
  IF ds = <<>> THEN 0
  ELSE parseInt(SubSeq(ds, 1, Len(ds) - 1)) * 10 + digitVal(ds[Len(ds)])

\* String(n) for an integer n >= 0
RECURSIVE natToString(_)
natToString(n) ==
  IF n < 10 THEN <<DigitChars[n + 1]>>
  ELSE natToString(n \div 10) \o <<DigitChars[(n % 10) + 1]>>

\* true when needle occurs in hay as a run of consecutive elements
Contains(hay, needle) ==
  \E k \in 0..(Len(hay) - Len(needle)) : SubSeq(hay, k + 1, k + Len(needle)) = needle

StartsWith(s, p) == Len(s) >= Len(p) /\ SubSeq(s, 1, Len(p)) = p

\* ------------------------------------------------------------------------
\* Values: numbers are exact rationals n/d in lowest terms
\* ------------------------------------------------------------------------

Abs(n) == IF n < 0 THEN -n ELSE n

RECURSIVE Gcd(_, _)
Gcd(a, b) == IF b = 0 THEN a ELSE Gcd(b, a % b)

Rat(n, d) ==
  LET g == Gcd(Abs(n), Abs(d))
      s == IF d < 0 THEN -1 ELSE 1
  IN  [t |-> "num", n |-> (s * n) \div g, d |-> (s * d) \div g]

Num(n) == [t |-> "num", n |-> n, d |-> 1]

Bool(b) == [t |-> "bool", v |-> b]

Str(s) == [t |-> "str", v |-> s]

Arr(xs) == [t |-> "arr", v |-> xs]

Undefined == [t |-> "undefined"]

\* the sentinel of a numeric coercion that produced no number
NaN == [t |-> "nan"]

\* ------------------------------------------------------------------------
\* errors.js
\* ------------------------------------------------------------------------

ERROR == [NAME  |-> <<"#NAME?">>,
          REF   |-> <<"#REF!">>,
          VALUE |-> <<"#VALUE!">>,
          DIV0  |-> <<"#DIV/0!">>,
          NA    |-> <<"#N/A">>,
          NUM   |-> <<"#NUM!">>,
          CYCLE |-> <<"#CYCLE!">>]

err(code, message) == [t |-> "error", code |-> code, message |-> message]

isCellError(v) == v.t = "error"

\* CellError.prototype.toString
errorToString(e) == e.code

\* a raised exception travelling up the call stack (not a value of the engine)
Thrown(message) == [t |-> "thrown", message |-> message]

isThrown(x) == x.t = "thrown"

\* ------------------------------------------------------------------------
\* engine.js: address utilities
\* ------------------------------------------------------------------------

\* the character at 0-based index i, or "" (undefined) past the end
peekAt(s, i) == IF i < Len(s) THEN s[i + 1] ELSE ""

\* readWhile: the 0-based index reached from i while the characters are in chars
readEnd(s, i, chars) ==
  SetMin({ j \in i..Len(s) : j = Len(s) \/ s[j + 1] \notin chars })

AlphaSet == UpperSet \cup LowerSet

DollarSet == {"$"}

WsSet == {" "}

\* the groups of the match when the column letters end at p1
absoluteA1From(a1, p0, p1) ==
  LET p2 == IF peekAt(a1, p1) = "$" THEN p1 + 1 ELSE p1
      p3 == readEnd(a1, p2, DigitSet)
  IN  IF p1 > p0 /\ p3 > p2 /\ p3 = Len(a1)
      THEN [ok |-> TRUE, colAbs |-> p0 = 1, col |-> slice(a1, p0, p1),
            rowAbs |-> p2 > p1, row |-> slice(a1, p2, p3)]
      ELSE [ok |-> FALSE]

\* /^(\$?)([A-Za-z]+)(\$?)(\d+)$/ ; null is [ok |-> FALSE]
parseAbsoluteA1(a1) ==
  LET p0 == IF peekAt(a1, 0) = "$" THEN 1 ELSE 0
  IN  absoluteA1From(a1, p0, readEnd(a1, p0, AlphaSet))

\* /^([^!]+)!([^!]+)$/ : exactly one "!", with text on both sides
isSheetQualified(address) ==
  /\ Cardinality(Positions(address, "!")) = 1
  /\ address[1] # "!"
  /\ address[Len(address)] # "!"

\* a normalization that upper-cases the A1 part and keeps its absolute markers
normalizedKeepsMarkers(sheet, a1, abs) ==
  IF ~abs.ok THEN Thrown(<<"Invalid A1: ">> \o a1)
  ELSE [t |-> "address", sheet |-> sheet, addr |-> toUpperCase(a1)]

\* { sheet, addr } from the match abs of the A1 part, or the Error thrown
normalizedFrom(sheet, a1, abs) ==
  IF ~abs.ok THEN Thrown(<<"Invalid A1: ">> \o a1)
  ELSE [t |-> "address", sheet |-> sheet,
        addr |-> toUpperCase(abs.col) \o natToString(parseInt(abs.row))]

normalizeAddress(address, defaultSheet) ==
  LET k  == CHOOSE i \in Positions(address, "!") : TRUE
      a1 == IF isSheetQualified(address) THEN SubSeq(address, k + 1, Len(address))
            ELSE address
  IN  normalizedFrom(IF isSheetQualified(address) THEN SubSeq(address, 1, k - 1)
                     ELSE defaultSheet,
                     a1, parseAbsoluteA1(a1))

qualifyIfNeeded(address, defaultSheet) ==
  IF isSheetQualified(address) THEN address
  ELSE defaultSheet \o <<"!">> \o address

\* col = col * 26 + (charCode - 64), left to right
RECURSIVE columnLettersToIndex(_)
columnLettersToIndex(colStr) ==
  IF colStr = <<>> THEN 0
  ELSE columnLettersToIndex(SubSeq(colStr, 1, Len(colStr) - 1)) * 26
       + LetterIndex(colStr[Len(colStr)])

\* { row, col } from the match m, or the Error thrown
rowColFrom(a1, m) ==
  IF ~m.ok THEN Thrown(<<"Invalid A1 ref: ">> \o a1)
  ELSE [t |-> "rowcol", row |-> parseInt(m.row),
        col |-> columnLettersToIndex(toUpperCase(m.col))]

a1ToRowCol(a1) == rowColFrom(a1, parseAbsoluteA1(a1))

\* column letters taken from the remainder of c itself, not of c - 1
RECURSIVE indexToColumnLettersZeroBased(_)
indexToColumnLettersZeroBased(c) ==
  IF c > 0
  THEN indexToColumnLettersZeroBased(c \div 26) \o <<UpperLetters[(c % 26) + 1]>>
  ELSE <<>>

RECURSIVE indexToColumnLetters(_)
indexToColumnLetters(c) ==
  IF c > 0
  THEN indexToColumnLetters((c - 1) \div 26) \o <<UpperLetters[((c - 1) % 26) + 1]>>
  ELSE <<>>

rowColToA1(row, col) == indexToColumnLetters(col) \o natToString(row)

\* a rectangle whose addresses run down the columns
rectangleColumnMajor(rowsMin, rowsMax, colsMin, colsMax) ==
  LET w == colsMax - colsMin + 1
      h == rowsMax - rowsMin + 1
  IN  [k \in 1..(w * h) |->
         rowColToA1(rowsMin + ((k - 1) % h), colsMin + ((k - 1) \div h))]

\* the addresses of the rectangle, row-major, as a sequence
rectangle(rowsMin, rowsMax, colsMin, colsMax) ==
  LET w == colsMax - colsMin + 1
      h == rowsMax - rowsMin + 1
  IN  [k \in 1..(w * h) |->
         rowColToA1(rowsMin + ((k - 1) \div w), colsMin + ((k - 1) % w))]

\* the rectangle spanned by the corners p1 and p2
rectangleBetween(p1, p2) ==
  IF isThrown(p1) THEN p1
  ELSE IF isThrown(p2) THEN p2
  ELSE rectangle(Min(p1.row, p2.row), Max(p1.row, p2.row),
                 Min(p1.col, p2.col), Max(p1.col, p2.col))

expandRange(startA1, endA1) == rectangleBetween(a1ToRowCol(startA1), a1ToRowCol(endA1))

\* /^([^!]+)!([^:]+):([^:]+)$/ : text, the first "!", then X:Y with one ":"
sheetMatch(input) ==
  LET bangs == Positions(input, "!")
      k     == SetMin(bangs)
      rest  == SubSeq(input, k + 1, Len(input))
      cs    == Positions(rest, ":")
      c     == CHOOSE i \in cs : TRUE
  IN  IF bangs # {} /\ k > 1 /\ Cardinality(cs) = 1 /\ c > 1 /\ c < Len(rest)
      THEN [ok |-> TRUE, sheet |-> SubSeq(input, 1, k - 1),
            startStr |-> SubSeq(rest, 1, c - 1),
            endStr |-> SubSeq(rest, c + 1, Len(rest))]
      ELSE [ok |-> FALSE]

\* input.split(':') when it yields exactly two parts
splitColon(input) ==
  LET cs == Positions(input, ":")
      c  == CHOOSE i \in cs : TRUE
  IN  IF Cardinality(cs) = 1
      THEN [ok |-> TRUE, startStr |-> trim(SubSeq(input, 1, c - 1)),
            endStr |-> trim(SubSeq(input, c + 1, Len(input)))]
      ELSE [ok |-> FALSE]

\* the record parseRangeRef returns, from the corners p1 and p2
rangeBounds(sheet, start, end, p1, p2) ==
  [t |-> "range", sheet |-> sheet, start |-> start, end |-> end,
   rowsMin |-> Min(p1.row, p2.row), rowsMax |-> Max(p1.row, p2.row),
   colsMin |-> Min(p1.col, p2.col), colsMax |-> Max(p1.col, p2.col)]

\* lines 325-335, from the two normalized endpoints
rangeBetween(sheet, n1, n2) ==
  IF isThrown(n1) THEN n1
  ELSE IF isThrown(n2) THEN n2
  ELSE rangeBounds(sheet, n1.addr, n2.addr, a1ToRowCol(n1.addr), a1ToRowCol(n2.addr))

\* lines 310-326, from the text of the two endpoints
rangeOfParts(sheet, parts) ==
  IF ~parts.ok THEN Thrown(<<"Invalid range (expected A1:B2)">>)
  ELSE rangeBetween(sheet, normalizeAddress(parts.startStr, sheet),
                    normalizeAddress(parts.endStr, sheet))

\* lines 313-323: the sheet and the endpoint texts
rangeOfInput(input, defaultSheet, sm) ==
  IF input = <<>> THEN Thrown(<<"Missing range">>)
  ELSE rangeOfParts(IF sm.ok THEN sm.sheet ELSE defaultSheet,
                    IF sm.ok THEN sm ELSE splitColon(input))

parseRangeRef(rangeStr, defaultSheet) ==
  rangeOfInput(trim(rangeStr), defaultSheet, sheetMatch(trim(rangeStr)))

\* ------------------------------------------------------------------------
\* parser.js: the recursive-descent formula parser. ctx.s is s, ctx.i is the
\* 0-based index i; a parse returns Parsed(node, i) or a thrown Error.
\* ------------------------------------------------------------------------

Parsed(node, i) == [t |-> "parsed", node |-> node, i |-> i]

Literal(value) == [t |-> "node", type |-> "Literal", value |-> value]

CellNode(ref) == [t |-> "node", type |-> "Cell", ref |-> ref]

RangeNode(start, end) ==
  [t |-> "node", type |-> "Range", start |-> start, end |-> end]

CallNode(name, args) ==
  [t |-> "node", type |-> "Call", name |-> name, args |-> args]

BinaryOp(op, left, right) ==
  [t |-> "node", type |-> "BinaryOp", op |-> op, left |-> left, right |-> right]

skipWs(s, i) == IF i >= Len(s) THEN i ELSE readEnd(s, i, WsSet)

isAlphaOrDollar(ch) == isAlpha(ch) \/ ch = "$"

AlphaDollarSet == AlphaSet \cup DollarSet

SheetNameSet == AlphaSet \cup DigitSet \cup {"_"}

\* the text of a character handed to a template string: undefined past the end
charText(ch) == IF ch = "" THEN <<"undefined">> ELSE <<ch>>

RECURSIVE pow10(_)
pow10(k) == IF k = 0 THEN 1 ELSE 10 * pow10(k - 1)

\* parseCellRef once the column part has been read up to p1
cellRefFrom(s, i, p1) ==
  LET p2 == readEnd(s, p1, DollarSet)
      p3 == readEnd(s, p2, DigitSet)
  IN  IF p1 = i \/ p3 = p2
      THEN Thrown(<<"Invalid cell reference at ">> \o natToString(p3))
      ELSE Parsed(toUpperCase(slice(s, i, p3)), p3)

parseCellRef(s, i) == cellRefFrom(s, i, readEnd(s, i, AlphaDollarSet))

\* the body of a string literal from index i (after the opening quote)
RECURSIVE parseStringBody(_, _, _)
parseStringBody(s, i, out) ==
  IF i >= Len(s) THEN Parsed(Literal(Str(out)), i)
  ELSE LET ch == s[i + 1]
       IN  IF ch = "\"" THEN Parsed(Literal(Str(out)), i + 1)
           ELSE IF ch = "\\"
           THEN LET esc == peekAt(s, i + 1)
                    add == IF esc = "n" THEN <<"\n">>
                           ELSE IF esc = "t" THEN <<"\t">>
                           ELSE charText(esc)
                IN  IF i + 2 >= Len(s) THEN Parsed(Literal(Str(out \o add)), i + 2)
                    ELSE parseStringBody(s, i + 2, out \o add)
           ELSE parseStringBody(s, i + 1, out \o <<ch>>)

parseString(s, i) ==
  IF peekAt(s, i) # "\""
  THEN Thrown(<<"Expected ", "\"", " got ">> \o charText(peekAt(s, i)))
  ELSE parseStringBody(s, i + 1, <<>>)

\* tryParseNumber once the sign (up to p0) and the integer digits (up to p1)
\* have been read
numberFrom(s, start, p0, p1) ==
  LET dot  == peekAt(s, p1) = "."
      p2   == IF dot THEN readEnd(s, p1 + 1, DigitSet) ELSE p1
      ints == slice(s, p0, p1)
      frac == IF dot THEN slice(s, p1 + 1, p2) ELSE <<>>
      sign == IF peekAt(s, start) = "-" THEN -1 ELSE 1
  IN  IF ints = <<>> /\ frac = <<>> THEN [t |-> "null"]
      ELSE Parsed(Literal(Rat(sign * parseInt(ints \o frac), pow10(Len(frac)))), p2)

\* null is [t |-> "null"]
tryParseNumber(s, start) ==
  LET p0 == IF peekAt(s, start) \in {"+", "-"} THEN start + 1 ELSE start
  IN  numberFrom(s, start, p0, readEnd(s, p0, DigitSet))

\* a Range node from start to the cell reference c2 read after the colon
rangeNodeTo(start, endSheet, c2) ==
  IF isThrown(c2) THEN c2
  ELSE Parsed(RangeNode(start, endSheet \o c2.node), c2.i)

\* tryParseSheetQualified once the cell reference c1 after the "!" has been read
sheetQualifiedCell(s, sheet, c1) ==
  LET j == IF isThrown(c1) THEN 0 ELSE skipWs(s, c1.i)
  IN  IF isThrown(c1) THEN c1
      ELSE IF peekAt(s, j) = ":"
      THEN rangeNodeTo(sheet \o <<"!">> \o c1.node, sheet \o <<"!">>,
                       parseCellRef(s, skipWs(s, j + 1)))
      ELSE Parsed(CellNode(sheet \o <<"!">> \o c1.node), j)

\* tryParseSheetQualified once the sheet name has been read up to p1
sheetQualifiedFrom(s, start, p1) ==
  IF p1 = start \/ peekAt(s, p1) # "!" THEN [t |-> "null"]
  ELSE sheetQualifiedCell(s, slice(s, start, p1), parseCellRef(s, p1 + 1))

tryParseSheetQualified(s, start) ==
  sheetQualifiedFrom(s, start, readEnd(s, start, SheetNameSet))

RECURSIVE parseExpr(_, _)
RECURSIVE parseAddSub(_, _)
RECURSIVE parseAddSubFrom(_, _, _, _)
RECURSIVE parseAddSubNext(_, _, _, _)
RECURSIVE parseMulDiv(_, _)
RECURSIVE parseMulDivFrom(_, _, _, _)
RECURSIVE parseMulDivNext(_, _, _, _)
RECURSIVE parseTerm(_, _)
RECURSIVE parseArgs(_, _, _)
RECURSIVE parseArgsNext(_, _, _)

parseExpr(s, i) == parseAddSub(s, skipWs(s, i))

\* the operand just read joined to what is to its left; op is "" for the first
joined(op, left, operand) ==
  IF op = "" THEN operand ELSE BinaryOp(op, left, operand)

\* the loop of parseAddSub after the operand term has been read
parseAddSubNext(s, left, op, term) ==
  LET j  == IF isThrown(term) THEN 0 ELSE skipWs(s, term.i)
      ch == peekAt(s, j)
  IN  IF isThrown(term) THEN term
      ELSE IF ch \in {"+", "-"}
      THEN parseAddSubFrom(s, joined(op, left, term.node), ch, j + 1)
      ELSE Parsed(joined(op, left, term.node), j)

\* parseAddSub about to read the operand at i, with left and op before it
parseAddSubFrom(s, left, op, i) == parseAddSubNext(s, left, op, parseMulDiv(s, i))

parseAddSub(s, i) == parseAddSubFrom(s, <<>>, "", i)

\* the loop of parseMulDiv after the operand term has been read
parseMulDivNext(s, left, op, term) ==
  LET j  == IF isThrown(term) THEN 0 ELSE skipWs(s, term.i)
      ch == peekAt(s, j)
  IN  IF isThrown(term) THEN term
      ELSE IF ch \in {"*", "/"}
      THEN parseMulDivFrom(s, joined(op, left, term.node), ch, j + 1)
      ELSE Parsed(joined(op, left, term.node), j)

\* parseMulDiv about to read the operand at i, with left and op before it
parseMulDivFrom(s, left, op, i) == parseMulDivNext(s, left, op, parseTerm(s, i))

parseMulDiv(s, i) == parseMulDivFrom(s, <<>>, "", i)

\* the argument loop of a call after the argument arg has been read
parseArgsNext(s, args, arg) ==
  LET j == IF isThrown(arg) THEN 0 ELSE skipWs(s, arg.i)
  IN  IF isThrown(arg) THEN arg
      ELSE IF peekAt(s, j) = "," THEN parseArgs(s, j + 1, Append(args, arg.node))
      ELSE IF peekAt(s, j) = ")" THEN Parsed(Append(args, arg.node), j + 1)
      ELSE Thrown(<<"Expected , or ) in function call at ">> \o natToString(j))

\* the argument loop of a call, from index i, with the arguments read so far
parseArgs(s, i, args) == parseArgsNext(s, args, parseExpr(s, i))

\* a Call node from the arguments read
callNodeFrom(name, args) ==
  IF isThrown(args) THEN args ELSE Parsed(CallNode(name, args.node), args.i)

\* the identifier branch when a digit follows: a cell or a range, the row read
\* up to p3
identCell(s, start, p3) ==
  LET cell == toUpperCase(slice(s, start, p3))
      j    == skipWs(s, p3)
  IN  IF peekAt(s, j) = ":"
      THEN rangeNodeTo(cell, <<>>, parseCellRef(s, skipWs(s, j + 1)))
      ELSE Parsed(CellNode(cell), j)

\* the identifier branch when no digit follows: a call or a boolean literal
identCall(s, start, upperIdent, k) ==
  LET k2 == skipWs(s, k + 1)
  IN  IF peekAt(s, k) = "("
      THEN IF peekAt(s, k2) = ")" THEN Parsed(CallNode(upperIdent, <<>>), k2 + 1)
           ELSE callNodeFrom(upperIdent, parseArgs(s, k2, <<>>))
      ELSE IF upperIdent = <<"T","R","U","E">> THEN Parsed(Literal(Bool(TRUE)), k)
      ELSE IF upperIdent = <<"F","A","L","S","E">> THEN Parsed(Literal(Bool(FALSE)), k)
      ELSE Thrown(<<"Unable to parse term at ">> \o natToString(start))

\* the identifier branch once the identifier has been read up to p1
identFrom(s, start, p1) ==
  IF isDigit(peekAt(s, p1))
  THEN identCell(s, start, readEnd(s, readEnd(s, p1, DollarSet), DigitSet))
  ELSE identCall(s, start, toUpperCase(slice(s, start, p1)), skipWs(s, p1))

\* the branch of parseTerm that reads an identifier: a cell, a range, a call or
\* a boolean literal
parseIdentTerm(s, start) == identFrom(s, start, readEnd(s, start, AlphaDollarSet))

\* expect(ctx, ')') after the parenthesized expression inner
parenClosed(s, inner) ==
  LET close == IF isThrown(inner) THEN 0 ELSE skipWs(s, inner.i)
  IN  IF isThrown(inner) THEN inner
      ELSE IF peekAt(s, close) # ")"
      THEN Thrown(<<"Expected ", ")", " got ">> \o charText(peekAt(s, close)))
      ELSE Parsed(inner.node, close + 1)

\* parseTerm after the attempts at a number and at a sheet-qualified reference
termAfter(s, start, tryNum, trySheet) ==
  IF tryNum.t # "null" THEN tryNum
  ELSE IF trySheet.t # "null" THEN trySheet
  ELSE IF isAlphaOrDollar(peekAt(s, start)) THEN parseIdentTerm(s, start)
  ELSE Thrown(<<"Unable to parse term at ">> \o natToString(start))

\* parseTerm at start, where the whitespace has been skipped
termAt(s, start) ==
  LET ch == peekAt(s, start)
  IN  IF ch = "(" THEN parenClosed(s, parseExpr(s, start + 1))
      ELSE IF ch = "\"" THEN parseString(s, start)
      ELSE termAfter(s, start,
                     IF ch \in {"+", "-"} \/ isDigit(ch) THEN tryParseNumber(s, start)
                     ELSE [t |-> "null"],
                     tryParseSheetQualified(s, start))

parseTerm(s, i) == termAt(s, skipWs(s, i))

\* the check of parseFormula that the whole input was consumed
wholeInput(s, r) ==
  LET j == IF isThrown(r) THEN 0 ELSE skipWs(s, r.i)
  IN  IF isThrown(r) THEN r
      ELSE IF j # Len(s) THEN Thrown(<<"Unexpected input at position ">> \o natToString(j))
      ELSE r.node

parseFormula(input) == wholeInput(trim(input), parseExpr(trim(input), 0))

\* ------------------------------------------------------------------------
\* Numbers and coercions
\* ------------------------------------------------------------------------

numAdd(a, b) == Rat(a.n * b.d + b.n * a.d, a.d * b.d)

numSub(a, b) == Rat(a.n * b.d - b.n * a.d, a.d * b.d)

numMul(a, b) == Rat(a.n * b.n, a.d * b.d)

\* defined for b # 0
numDiv(a, b) == Rat(a.n * b.d, a.d * b.n)

isZero(a) == a.n = 0

\* Number(text) for decimal text: blank is 0, [+-]digits[.digits] is the number,
\* anything else is NaN (hexadecimal, exponent and Infinity forms are not drawn)
numberOfText(s, r) ==
  IF s = <<>> THEN Num(0)
  ELSE IF r.t = "parsed" /\ r.i = Len(s) THEN r.node.value
  ELSE NaN

stringToNumber(text) == numberOfText(trim(text), tryParseNumber(trim(text), 0))

\* a coercion that hands every value to Number(): true is 1, false is 0
coerceNumberLoose(v) ==
  IF v.t = "num" THEN v
  ELSE IF v.t = "bool" THEN (IF v.v THEN Num(1) ELSE Num(0))
  ELSE IF v.t = "str" THEN stringToNumber(v.v)
  ELSE NaN

\* engine.js coerceNumber
coerceNumber(v) ==
  IF v.t = "num" THEN v
  ELSE IF v.t = "undefined" THEN NaN
  ELSE IF v.t = "str" THEN stringToNumber(v.v)
  ELSE NaN

\* Number.isFinite
isFinite(v) == v.t = "num"

\* ------------------------------------------------------------------------
\* parser.js: BuiltinRegistry. map and originalNames are functions whose
\* domain is the set of upper-case keys; order holds the keys in the order of
\* their first insertion, the order in which a Map iterates.
\* ------------------------------------------------------------------------

EmptyRegistry == [map |-> <<>>, originalNames |-> <<>>, order |-> <<>>]

mapSet(m, key, value) ==
  [k \in (DOMAIN m) \cup {key} |-> IF k = key THEN value ELSE m[k]]

\* the keys of a Map in iteration order after set(key, ...)
orderSet(m, order, key) == IF key \in DOMAIN m THEN order ELSE Append(order, key)

\* a register that keeps the name of the first registration under a key
registerKeepsFirstName(reg, name, fn) ==
  LET key == toUpperCase(name)
  IN  [map |-> mapSet(reg.map, key, fn),
       originalNames |-> IF key \in DOMAIN reg.originalNames THEN reg.originalNames
                         ELSE mapSet(reg.originalNames, key, name),
       order |-> orderSet(reg.map, reg.order, key)]

register(reg, name, fn) ==
  LET key == toUpperCase(name)
  IN  [map |-> mapSet(reg.map, key, fn),
       originalNames |-> mapSet(reg.originalNames, key, name),
       order |-> orderSet(reg.map, reg.order, key)]

\* a membership test that looks the name up as it is written
hasExactName(reg, name) == name \in DOMAIN reg.map

has(reg, name) == toUpperCase(name) \in DOMAIN reg.map

\* registry.get: the implementation, or undefined
get(reg, name) ==
  IF toUpperCase(name) \in DOMAIN reg.map THEN reg.map[toUpperCase(name)]
  ELSE "undefined"

\* Array.from(this.originalNames.values())
names(reg) == [i \in 1..Len(reg.order) |-> reg.originalNames[reg.order[i]]]

\* ------------------------------------------------------------------------
\* builtins: shared helpers and the functions the formulas of the model call
\* ------------------------------------------------------------------------

\* ensureArray(args, n)[i], 1-based: args[i] or undefined
ensureArray(args, i) == IF i <= Len(args) THEN args[i] ELSE Undefined

RECURSIVE flattenArgsToValues(_)
flattenArgsToValues(args) ==
  IF args = <<>> THEN <<>>
  ELSE (IF Head(args).t = "arr" THEN Head(args).v ELSE <<Head(args)>>)
       \o flattenArgsToValues(Tail(args))

\* what coerceToNumberArray keeps of the value v, n being Number(v) of a string
keptNumber(v, n) ==
  IF v.t = "num" THEN <<v>>
  ELSE IF v.t = "str" /\ trim(v.v) # <<>> /\ n.t = "num" THEN <<n>>
  ELSE <<>>

RECURSIVE coerceToNumberArray(_)
coerceToNumberArray(values) ==
  IF values = <<>> THEN <<>>
  ELSE keptNumber(Head(values),
                  IF Head(values).t = "str" THEN stringToNumber(Head(values).v) ELSE NaN)
       \o coerceToNumberArray(Tail(values))

truthy(v) ==
  IF v.t = "num" THEN ~isZero(v)
  ELSE IF v.t = "str" THEN v.v # <<>>
  ELSE IF v.t = "bool" THEN v.v
  ELSE IF v.t = "undefined" THEN FALSE
  ELSE TRUE

RECURSIVE sumAll(_)
sumAll(values) ==
  IF values = <<>> THEN Num(0) ELSE numAdd(Head(values), sumAll(Tail(values)))

fnSUM(args) == sumAll(coerceToNumberArray(flattenArgsToValues(args)))

fnIF(args) ==
  IF truthy(ensureArray(args, 1)) THEN ensureArray(args, 2) ELSE ensureArray(args, 3)

\* a user-registered function whose body raises: () => { throw new Error('boom') }
fnBoom(args) == Thrown(<<"boom">>)

\* the user-registered function of the lookup test: (args) => args
fnTable(args) == Arr(args)

\* ------------------------------------------------------------------------
\* parser.js: the lookup built-ins MATCH, INDEX and VLOOKUP with the
\* conversions and comparisons of the language they rely on
\* ------------------------------------------------------------------------

\* the characters of the model in the order of their code units
CodeUnits == <<" ", "!", "\"", "#", "$", "(", ")", "*", "+", ",", "-", ".", "/">>
             \o DigitChars \o <<":", "<", "=", ">", "?">> \o UpperLetters
             \o LowerLetters

codeUnit(ch) == CHOOSE i \in 1..Len(CodeUnits) : CodeUnits[i] = ch

\* as < bs for strings: the first differing code unit decides, a proper prefix
\* comes first
RECURSIVE stringLess(_, _)
stringLess(as, bs) ==
  IF bs = <<>> THEN FALSE
  ELSE IF as = <<>> THEN TRUE
  ELSE IF Head(as) = Head(bs) THEN stringLess(Tail(as), Tail(bs))
  ELSE codeUnit(Head(as)) < codeUnit(Head(bs))

\* the digits after the decimal point of r / d, at most k of them
RECURSIVE fractionDigits(_, _, _)
fractionDigits(r, d, k) ==
  IF r = 0 \/ k = 0 THEN <<>>
  ELSE <<DigitChars[((r * 10) \div d) + 1]>> \o fractionDigits((r * 10) % d, d, k - 1)

\* String(v) of a number that has a finite decimal expansion
numberToString(v) ==
  (IF v.n < 0 THEN <<"-">> ELSE <<>>)
  \o natToString(Abs(v.n) \div v.d)
  \o (IF v.d = 1 THEN <<>> ELSE <<".">> \o fractionDigits(Abs(v.n) % v.d, v.d, 17))

\* the characters of an error code
codeChars(code) ==
  CASE code = ERROR.NAME  -> <<"#","N","A","M","E","?">>
    [] code = ERROR.REF   -> <<"#","R","E","F","!">>
    [] code = ERROR.VALUE -> <<"#","V","A","L","U","E","!">>
    [] code = ERROR.DIV0  -> <<"#","D","I","V","/","0","!">>
    [] code = ERROR.NA    -> <<"#","N","/","A">>
    [] code = ERROR.NUM   -> <<"#","N","U","M","!">>
    [] code = ERROR.CYCLE -> <<"#","C","Y","C","L","E","!">>

\* String(v); an array is its elements joined by commas, undefined elements
\* giving nothing
RECURSIVE jsString(_)
RECURSIVE joinStrings(_, _)
joinStrings(xs, i) ==
  IF i > Len(xs) THEN <<>>
  ELSE (IF i > 1 THEN <<",">> ELSE <<>>)
       \o (IF xs[i].t = "undefined" THEN <<>> ELSE jsString(xs[i]))
       \o joinStrings(xs, i + 1)

jsString(v) ==
  CASE v.t = "num"       -> numberToString(v)
    [] v.t = "str"       -> v.v
    [] v.t = "bool"      -> IF v.v THEN <<"t","r","u","e">> ELSE <<"f","a","l","s","e">>
    [] v.t = "undefined" -> <<"u","n","d","e","f","i","n","e","d">>
    [] v.t = "nan"       -> <<"N","a","N">>
    [] v.t = "error"     -> codeChars(errorToString(v))
    [] v.t = "arr"       -> joinStrings(v.v, 1)

\* Number(v)
toNumber(v) ==
  CASE v.t = "num"       -> v
    [] v.t = "bool"      -> IF v.v THEN Num(1) ELSE Num(0)
    [] v.t = "str"       -> stringToNumber(v.v)
    [] v.t = "arr"       -> stringToNumber(jsString(v))
    [] OTHER             -> NaN

\* Number.isInteger
isInteger(v) == v.t = "num" /\ v.d = 1

\* a < b for numbers; false when either is NaN
numLess(a, b) == a.t = "num" /\ b.t = "num" /\ a.n * b.d < b.n * a.d

\* typeof v === 'number'
isNumberType(v) == v.t \in {"num", "nan"}

\* a === b. Two arrays or two error objects are equal only when they are the
\* same object; the values compared here are built separately, so they are not.
equals(a, b) == a.t \notin {"arr", "error", "nan"} /\ a = b

\* as < bs ? -1 : as > bs ? 1 : 0
compareStrings(as, bs) ==
  IF stringLess(as, bs) THEN -1 ELSE IF stringLess(bs, as) THEN 1 ELSE 0

compare(a, b) ==
  IF equals(a, b) THEN 0
  ELSE IF isNumberType(a) /\ isNumberType(b) THEN (IF numLess(a, b) THEN -1 ELSE 1)
  ELSE compareStrings(jsString(a), jsString(b))

\* x[k] for a number k: an element of an array, a character of a string,
\* undefined for any other index or value, a TypeError when x is undefined
elementAt(x, k) ==
  IF x.t = "undefined"
  THEN Thrown(<<"Cannot read properties of undefined">>)
  ELSE IF x.t \in {"arr", "str"} /\ isInteger(k) /\ k.n >= 0 /\ k.n < Len(x.v)
  THEN (IF x.t = "arr" THEN x.v[k.n + 1] ELSE Str(<<x.v[k.n + 1]>>))
  ELSE Undefined

\* Array.isArray(x) ? x : [x]
asArray(x) == IF x.t = "arr" THEN x.v ELSE <<x>>

\* a parameter with a default: the default stands in for undefined only
orDefault(v, default) == IF v.t = "undefined" THEN default ELSE v

\* MATCH, exact: the first position i (1-based) with arr[i] === lookupValue
RECURSIVE matchExact(_, _, _)
matchExact(arr, lookupValue, i) ==
  IF i > Len(arr) THEN err(ERROR.NA, <<"MATCH not found">>)
  ELSE IF equals(lookupValue, arr[i]) THEN Num(i)
  ELSE matchExact(arr, lookupValue, i + 1)

\* an ascending scan that stops below the target: equal elements end it
RECURSIVE scanAscendingStrict(_, _, _, _)
scanAscendingStrict(arr, lookupValue, i, idx) ==
  IF i > Len(arr) THEN idx
  ELSE IF compare(arr[i], lookupValue) < 0
  THEN scanAscendingStrict(arr, lookupValue, i + 1, i)
  ELSE idx

\* MATCH, matchType 1: the loop that keeps the last position of the leading
\* run of elements that compare <= lookupValue (idx is 1-based, 0 for none)
RECURSIVE scanAscending(_, _, _, _)
scanAscending(arr, lookupValue, i, idx) ==
  IF i > Len(arr) THEN idx
  ELSE IF compare(arr[i], lookupValue) <= 0
  THEN scanAscending(arr, lookupValue, i + 1, i)
  ELSE idx

\* MATCH, matchType -1: the same with >=
RECURSIVE scanDescending(_, _, _, _)
scanDescending(arr, lookupValue, i, idx) ==
  IF i > Len(arr) THEN idx
  ELSE IF compare(arr[i], lookupValue) >= 0
  THEN scanDescending(arr, lookupValue, i + 1, i)
  ELSE idx

matchFound(idx) ==
  IF idx = 0 THEN err(ERROR.NA, <<"MATCH not found">>) ELSE Num(idx)

matchOf(lookupValue, arr, matchType) ==
  IF matchType = Num(0) THEN matchExact(arr, lookupValue, 1)
  ELSE IF matchType = Num(1) THEN matchFound(scanAscending(arr, lookupValue, 1, 0))
  ELSE IF matchType = Num(-1) THEN matchFound(scanDescending(arr, lookupValue, 1, 0))
  ELSE err(ERROR.VALUE, <<"Invalid matchType">>)

fnMATCH(args) ==
  matchOf(ensureArray(args, 1), asArray(ensureArray(args, 2)),
          orDefault(ensureArray(args, 3), Num(1)))

\* (v || 1) - 1
orOneMinusOne(v) ==
  IF ~truthy(v) THEN Num(0)
  ELSE IF toNumber(v).t = "num" THEN numSub(toNumber(v), Num(1))
  ELSE NaN

isNegative(v) == v.t = "num" /\ v.n < 0

\* INDEX of an array of rows: rowArr is array[r]
index2DFrom(rowArr, c) ==
  IF ~truthy(rowArr) THEN err(ERROR.REF, <<"INDEX out of bounds">>)
  ELSE IF elementAt(rowArr, c).t = "undefined"
  THEN err(ERROR.REF, <<"INDEX out of bounds">>)
  ELSE elementAt(rowArr, c)

index2D(array, r, c) ==
  IF isNegative(r) \/ isNegative(c) THEN err(ERROR.REF, <<"INDEX out of bounds">>)
  ELSE index2DFrom(elementAt(array, r), c)

\* INDEX of anything else
index1D(array, r) ==
  IF array.t # "arr" THEN err(ERROR.VALUE, <<"INDEX expects array">>)
  ELSE IF isNegative(r) \/ (r.t = "num" /\ ~numLess(r, Num(Len(array.v))))
  THEN err(ERROR.REF, <<"INDEX out of bounds">>)
  ELSE elementAt(array, r)

indexOf(array, row, column) ==
  IF array.t = "arr" /\ Len(array.v) > 0 /\ array.v[1].t = "arr"
  THEN index2D(array, orOneMinusOne(row), orOneMinusOne(column))
  ELSE index1D(array, orOneMinusOne(row))

fnINDEX(args) ==
  indexOf(ensureArray(args, 1), ensureArray(args, 2), ensureArray(args, 3))

\* VLOOKUP: the rows of the table; a list of values is a list of one-column rows
tableRows(tableArray) ==
  IF Len(tableArray.v) > 0 /\ tableArray.v[1].t = "arr" THEN tableArray.v
  ELSE [i \in 1..Len(tableArray.v) |-> Arr(<<tableArray.v[i]>>)]

\* a scan that stops below the target: rows equal to searchKey end it
RECURSIVE pickSortedStrict(_, _, _, _)
pickSortedStrict(rows, searchKey, r, pick) ==
  IF r > Len(rows) THEN [t |-> "pick", r |-> pick]
  ELSE IF isThrown(elementAt(rows[r], Num(0))) THEN elementAt(rows[r], Num(0))
  ELSE IF compare(elementAt(rows[r], Num(0)), searchKey) < 0
  THEN pickSortedStrict(rows, searchKey, r + 1, r)
  ELSE [t |-> "pick", r |-> pick]

\* VLOOKUP, sorted: the loop that keeps the last row of the leading run of
\* rows whose first column compares <= searchKey (pick is 1-based, 0 for none)
RECURSIVE pickSorted(_, _, _, _)
pickSorted(rows, searchKey, r, pick) ==
  IF r > Len(rows) THEN [t |-> "pick", r |-> pick]
  ELSE IF isThrown(elementAt(rows[r], Num(0))) THEN elementAt(rows[r], Num(0))
  ELSE IF compare(elementAt(rows[r], Num(0)), searchKey) <= 0
  THEN pickSorted(rows, searchKey, r + 1, r)
  ELSE [t |-> "pick", r |-> pick]

\* VLOOKUP, exact: the first row whose first column === searchKey
RECURSIVE pickExact(_, _, _)
pickExact(rows, searchKey, r) ==
  IF r > Len(rows) THEN [t |-> "pick", r |-> 0]
  ELSE IF isThrown(elementAt(rows[r], Num(0))) THEN elementAt(rows[r], Num(0))
  ELSE IF equals(elementAt(rows[r], Num(0)), searchKey) THEN [t |-> "pick", r |-> r]
  ELSE pickExact(rows, searchKey, r + 1)

\* rows[pick][idx - 1] ?? err(REF)
columnOrRef(cell) ==
  IF cell.t = "undefined" THEN err(ERROR.REF, <<"Index out of bounds">>) ELSE cell

vlookupPicked(rows, p, idx) ==
  IF isThrown(p) THEN p
  ELSE IF p.r = 0 THEN err(ERROR.NA, <<"Not found">>)
  ELSE columnOrRef(elementAt(rows[p.r], numSub(idx, Num(1))))

vlookupRows(searchKey, rows, idx, isSorted) ==
  IF ~isInteger(idx) \/ idx.n < 1 THEN err(ERROR.VALUE, <<"Invalid index">>)
  ELSE IF truthy(isSorted) THEN vlookupPicked(rows, pickSorted(rows, searchKey, 1, 0), idx)
  ELSE vlookupPicked(rows, pickExact(rows, searchKey, 1), idx)

vlookupOf(searchKey, tableArray, index, isSorted) ==
  IF tableArray.t # "arr" THEN err(ERROR.VALUE, <<"VLOOKUP expects array">>)
  ELSE vlookupRows(searchKey, tableRows(tableArray), toNumber(index), isSorted)

fnVLOOKUP(args) ==
  vlookupOf(ensureArray(args, 1), ensureArray(args, 2), ensureArray(args, 3),
            orDefault(ensureArray(args, 4), Bool(TRUE)))

\* fn(evaluatedArgs, this) for the implementation registered as fn
callFunction(fn, args) ==
  CASE fn = "SUM"   -> fnSUM(args)
    [] fn = "IF"    -> fnIF(args)
    [] fn = "boom"  -> fnBoom(args)
    [] fn = "table" -> fnTable(args)
    [] fn = "MATCH" -> fnMATCH(args)
    [] fn = "INDEX" -> fnINDEX(args)
    [] fn = "VLOOKUP" -> fnVLOOKUP(args)

\* registerBuiltins(registry), for the built-ins the model carries
registerBuiltins(reg) ==
  register(register(register(register(register(reg,
    <<"S","U","M">>, "SUM"), <<"I","F">>, "IF"), <<"M","A","T","C","H">>, "MATCH"),
    <<"I","N","D","E","X">>, "INDEX"), <<"V","L","O","O","K","U","P">>, "VLOOKUP")

\* ------------------------------------------------------------------------
\* engine.js: the workbook store. A workbook wb maps a sheet name to a map
\* from stored key to cell content.
\* ------------------------------------------------------------------------

addSheet(wb, sheetName) ==
  IF sheetName \in DOMAIN wb THEN wb ELSE mapSet(wb, sheetName, <<>>)

\* the key under which setCell stores and getCell looks up
cellKey(address) == toUpperCase(address)

setCell(wb, sheetName, address, valueOrFormula) ==
  LET wb1 == IF sheetName \in DOMAIN wb THEN wb ELSE addSheet(wb, sheetName)
  IN  [wb1 EXCEPT ![sheetName] = mapSet(wb1[sheetName], cellKey(address), valueOrFormula)]

\* Map.prototype.get
mapGet(m, key) == IF key \in DOMAIN m THEN m[key] ELSE Undefined

getCell(wb, sheetName, address) ==
  IF sheetName \notin DOMAIN wb THEN Undefined
  ELSE mapGet(wb[sheetName], cellKey(address))

\* a lookup that creates the sheet it misses, the way setCell does
sheetsAfterGetCreating(wb, sheetName) == addSheet(wb, sheetName)

\* this.sheets after getCell(sheetName, ...): this.sheets.get(sheetName) and
\* sheet.get(key) look up and create nothing
sheetsAfterGet(wb, sheetName) == wb

\* the sheet of a visit key sheet!address
sheetOfKey(key) == SubSeq(key, 1, SetMin(Positions(key, "!")) - 1)

\* this.sheets after the getCell calls of an evaluation: evaluateCell calls
\* getCell once for every key it enters
RECURSIVE sheetsAfterGets(_, _)
sheetsAfterGets(wb, log) ==
  IF log = <<>> THEN wb
  ELSE sheetsAfterGets(IF Head(log).ev = "enter"
                       THEN sheetsAfterGet(wb, sheetOfKey(Head(log).key))
                       ELSE wb, Tail(log))

\* ------------------------------------------------------------------------
\* engine.js: the evaluator. The visit set is one mutable Set handed down the
\* call chain; here it travels in the evaluation state st together with a log
\* of what the evaluation did to it. An evaluation step returns Out(res, st),
\* res being a value or a thrown Error.
\* ------------------------------------------------------------------------

Out(res, st) == [res |-> res, st |-> st]

\* visiting = new Set()
NewVisit == [visiting |-> {}, log |-> <<>>]

visitKey(sheet, addr) == sheet \o <<"!">> \o addr

\* visiting.add(key)
visitAdd(st, key) ==
  [visiting |-> st.visiting \cup {key},
   log |-> Append(st.log, [ev |-> "enter", key |-> key,
                           visiting |-> st.visiting \cup {key}])]

\* a visit set that keeps the key on exit
visitDeleteKeepsKey(st, key) ==
  [visiting |-> st.visiting,
   log |-> Append(st.log, [ev |-> "exit", key |-> key, visiting |-> st.visiting])]

\* finally { visiting.delete(key) }
visitDelete(st, key) ==
  [visiting |-> st.visiting \ {key},
   log |-> Append(st.log, [ev |-> "exit", key |-> key,
                           visiting |-> st.visiting \ {key}])]

\* the early return on a key that is already being visited
visitCycle(st, key) ==
  [visiting |-> st.visiting,
   log |-> Append(st.log, [ev |-> "cycle", key |-> key, visiting |-> st.visiting])]

\* a cycle reported under the VALUE code
cycleErrorAsValue(key) == err(ERROR.VALUE, <<"Circular reference at ">> \o key)

\* return err(ERROR.CYCLE, `Circular reference at ${key}`)
cycleError(key) == err(ERROR.CYCLE, <<"Circular reference at ">> \o key)

\* a test for a formula that skips leading blanks
isFormulaAfterTrim(raw) == raw.t = "str" /\ StartsWith(trimLeft(raw.v), <<"=">>)

isFormula(raw) == raw.t = "str" /\ StartsWith(raw.v, <<"=">>)

\* an evaluateCell without the catch clause
catchNothing(res) == res

\* catch (e) { result = err(ERROR.VALUE, String(e && (e.message || e))) }
catchToValue(res) == IF isThrown(res) THEN err(ERROR.VALUE, res.message) ELSE res

\* a call without the try/catch around it
callUnguarded(fnName, fn, args) == callFunction(fn, args)

\* catch (e) { return err(ERROR.VALUE, `Function ${fnName} error: ...`) }
functionError(fnName, res) ==
  IF isThrown(res)
  THEN err(ERROR.VALUE, <<"Function ">> \o fnName \o <<" error: ">> \o res.message)
  ELSE res

\* try { fn(evaluatedArgs, this) } catch (e) { VALUE error naming the function }
callGuarded(fnName, fn, args) == functionError(fnName, callFunction(fn, args))

\* a BinaryOp case whose division does not look at the right operand: left / 0
\* is a non-finite number
arithmeticDivUnchecked(op, left, right) ==
  IF ~isFinite(left) \/ ~isFinite(right)
  THEN err(ERROR.VALUE, <<"Arithmetic with non-numeric values">>)
  ELSE CASE op = "+" -> numAdd(left, right)
         [] op = "-" -> numSub(left, right)
         [] op = "*" -> numMul(left, right)
         [] op = "/" -> IF isZero(right) THEN NaN ELSE numDiv(left, right)
         [] OTHER    -> err(ERROR.VALUE, <<"Unknown operator ", op>>)

\* the BinaryOp case once both operands have been coerced
arithmetic(op, left, right) ==
  IF ~isFinite(left) \/ ~isFinite(right)
  THEN err(ERROR.VALUE, <<"Arithmetic with non-numeric values">>)
  ELSE CASE op = "+" -> numAdd(left, right)
         [] op = "-" -> numSub(left, right)
         [] op = "*" -> numMul(left, right)
         [] op = "/" -> IF isZero(right) THEN err(ERROR.DIV0, <<"Division by zero">>)
                        ELSE numDiv(left, right)
         [] OTHER    -> err(ERROR.VALUE, <<"Unknown operator ", op>>)

binaryResult(op, leftVal, rightVal) ==
  arithmetic(op, coerceNumber(leftVal), coerceNumber(rightVal))

RECURSIVE evaluateCell(_, _, _, _, _)
RECURSIVE evaluateAst(_, _, _, _, _)
RECURSIVE evaluateCells(_, _, _, _, _, _)
RECURSIVE evaluateArgs(_, _, _, _, _, _)

\* the catch and the finally clause of evaluateCell, body being what the try
\* block returned or raised and the visit set it left
evaluateExit(key, body) == Out(catchToValue(body.res), visitDelete(body.st, key))

\* lines 62-65: the tree of a formula is evaluated, unless parsing raised
evaluateParsed(wb, reg, sheetName, ast, st) ==
  IF isThrown(ast) THEN Out(ast, st) ELSE evaluateAst(wb, reg, sheetName, ast, st)

\* lines 57-66: the try block of evaluateCell on the raw content of the cell
evaluateRaw(wb, reg, sheetName, raw, st) ==
  IF isFormula(raw) THEN evaluateParsed(wb, reg, sheetName, parseFormula(Tail(raw.v)), st)
  ELSE Out(raw, st)

\* the evaluateCell calls a log shows entered and not yet left
openCalls(log) ==
  Cardinality({ i \in 1..Len(log) : log[i].ev = "enter" })
  - Cardinality({ i \in 1..Len(log) : log[i].ev = "exit" })

\* an evaluateCell that stops a cycle by the depth of the calls in progress
\* instead of by the keys visited
evaluateCellAtDepthLimited(wb, reg, na, st) ==
  LET key == visitKey(na.sheet, na.addr)
  IN  IF isThrown(na) THEN Out(na, st)
      ELSE IF openCalls(st.log) >= 6 THEN Out(cycleError(key), visitCycle(st, key))
      ELSE evaluateExit(key, evaluateRaw(wb, reg, na.sheet,
                                         getCell(wb, na.sheet, na.addr),
                                         visitAdd(st, key)))

\* lines 52-72: evaluateCell once the address has been normalized to na
evaluateCellAt(wb, reg, na, st) ==
  LET key == visitKey(na.sheet, na.addr)
  IN  IF isThrown(na) THEN Out(na, st)
      ELSE IF key \in st.visiting THEN Out(cycleError(key), visitCycle(st, key))
      ELSE evaluateExit(key, evaluateRaw(wb, reg, na.sheet,
                                         getCell(wb, na.sheet, na.addr),
                                         visitAdd(st, key)))

evaluateCell(wb, reg, sheetName, address, st) ==
  evaluateCellAt(wb, reg, normalizeAddress(address, sheetName), st)

\* cells.map((addr) => this.evaluateCell(sheet, addr, visiting)), from cell k on
evaluateCells(wb, reg, sheetName, cells, acc, st) ==
  IF cells = <<>> THEN Out(Arr(acc), st)
  ELSE LET r == evaluateCell(wb, reg, sheetName, Head(cells), st)
       IN  IF isThrown(r.res) THEN r
           ELSE evaluateCells(wb, reg, sheetName, Tail(cells), Append(acc, r.res), r.st)

\* node.args.map((arg) => this.evaluateAst(sheetName, arg, visiting))
evaluateArgs(wb, reg, sheetName, args, acc, st) ==
  IF args = <<>> THEN Out(Arr(acc), st)
  ELSE LET r == evaluateAst(wb, reg, sheetName, Head(args), st)
       IN  IF isThrown(r.res) THEN r
           ELSE evaluateArgs(wb, reg, sheetName, Tail(args), Append(acc, r.res), r.st)

\* a Range case that does not compare the sheets of its endpoints and reads
\* the rectangle on the sheet of the first one
evaluateRangeOnStartSheet(wb, reg, n1, n2, st) ==
  IF isThrown(n1) THEN Out(n1, st)
  ELSE IF isThrown(n2) THEN Out(n2, st)
  ELSE evaluateCells(wb, reg, n1.sheet, expandRange(n1.addr, n2.addr), <<>>, st)

\* the Range case once both endpoints have been normalized
evaluateRange(wb, reg, n1, n2, st) ==
  IF isThrown(n1) THEN Out(n1, st)
  ELSE IF isThrown(n2) THEN Out(n2, st)
  ELSE IF n1.sheet # n2.sheet
  THEN Out(err(ERROR.REF, <<"Cross-sheet ranges not supported">>), st)
  ELSE evaluateCells(wb, reg, n1.sheet, expandRange(n1.addr, n2.addr), <<>>, st)

\* a call that skips the check of the lookup: calling undefined raises, and the
\* catch around the call turns that into a VALUE error
evaluateCallUnchecked(reg, name, fn, ea) ==
  IF isThrown(ea.res) THEN ea
  ELSE Out(functionError(name, IF fn = "undefined" THEN Thrown(<<"fn is not a function">>)
                               ELSE callFunction(fn, ea.res.v)),
           ea.st)

\* the Call case once the arguments have been evaluated to ea
evaluateCall(reg, name, fn, ea) ==
  IF isThrown(ea.res) THEN ea
  ELSE IF fn = "undefined"
  THEN Out(err(ERROR.NAME, <<"Unknown function: ">> \o name), ea.st)
  ELSE Out(callGuarded(name, fn, ea.res.v), ea.st)

evaluateAst(wb, reg, sheetName, node, st) ==
  CASE node.type = "Literal" -> Out(node.value, st)
    [] node.type = "Cell" -> evaluateCell(wb, reg, sheetName, node.ref, st)
    [] node.type = "Range" ->
         evaluateRange(wb, reg,
                       normalizeAddress(qualifyIfNeeded(node.start, sheetName), sheetName),
                       normalizeAddress(qualifyIfNeeded(node.end, sheetName), sheetName),
                       st)
    [] node.type = "Call" ->
         evaluateCall(reg, node.name, get(reg, node.name),
                      evaluateArgs(wb, reg, sheetName, node.args, <<>>, st))
    [] node.type = "BinaryOp" ->
         LET l == evaluateAst(wb, reg, sheetName, node.left, st)
             r == evaluateAst(wb, reg, sheetName, node.right, l.st)
         IN  IF isThrown(l.res) THEN l
             ELSE IF isThrown(r.res) THEN r
             ELSE Out(binaryResult(node.op, l.res, r.res), r.st)
    [] OTHER -> Out(err(ERROR.VALUE, <<"Unknown AST node: ", node.type>>), st)

\* evaluateCell(sheetName, address) as the API calls it, with a fresh visit set
evaluate(wb, reg, sheetName, address) ==
  evaluateCell(wb, reg, sheetName, address, NewVisit)

\* ------------------------------------------------------------------------
\* engine.js: the range API
\* ------------------------------------------------------------------------

\* the property of a cell descriptor that the mode leaves out
Absent == [t |-> "absent"]

rangeText(pr) ==
  rowColToA1(pr.rowsMin, pr.colsMin) \o <<":">> \o rowColToA1(pr.rowsMax, pr.colsMax)

rowCountOf(pr) == pr.rowsMax - pr.rowsMin + 1

colCountOf(pr) == pr.colsMax - pr.colsMin + 1

\* the descriptor getRange builds for the cell at (r, c)
getRangeCell(wb, reg, sheet, r, c, mode) ==
  LET address == rowColToA1(r, c)
  IN  [address  |-> address,
       raw      |-> IF mode \in {"raw", "both"} THEN getCell(wb, sheet, address)
                    ELSE Absent,
       computed |-> IF mode \in {"computed", "both"}
                    THEN evaluate(wb, reg, sheet, address).res
                    ELSE Absent]

\* getRange once the range text has been parsed to pr
getRangeOf(wb, reg, pr, mode) ==
  IF isThrown(pr) THEN pr
  ELSE [t |-> "result", sheet |-> pr.sheet, range |-> rangeText(pr),
        rows |-> [i \in 1..rowCountOf(pr) |->
                   [j \in 1..colCountOf(pr) |->
                      getRangeCell(wb, reg, pr.sheet, pr.rowsMin + i - 1,
                                   pr.colsMin + j - 1, mode)]]]

getRange(wb, reg, sheetName, rangeStr, mode) ==
  getRangeOf(wb, reg, parseRangeRef(rangeStr, sheetName), mode)

\* Array.isArray(values) && values.length !== 0 && values.every(Array.isArray)
isNonEmpty2D(values) ==
  /\ values.t = "arr"
  /\ Len(values.v) # 0
  /\ \A i \in 1..Len(values.v) : values.v[i].t = "arr"

\* a shape check that looks at the first row only
shapeMismatchFirstRow(values, rowCount, colCount) ==
  \/ Len(values.v) # rowCount
  \/ Len(values.v[1].v) # colCount

\* values.length !== rowCount || values.some((row) => row.length !== colCount)
shapeMismatch(values, rowCount, colCount) ==
  \/ Len(values.v) # rowCount
  \/ \E i \in 1..Len(values.v) : Len(values.v[i].v) # colCount

\* writes anchored at the first endpoint as written, not at the top-left corner
targetFromStart(pr, i, j) ==
  [row |-> a1ToRowCol(pr.start).row + i, col |-> a1ToRowCol(pr.start).col + j]

\* the row and column the matrix element (i, j), 0-based, is written to
targetRowCol(pr, i, j) == [row |-> pr.rowsMin + i, col |-> pr.colsMin + j]

\* the write loop of setRange from position k (row-major, 0-based) on
RECURSIVE writeCells(_, _, _, _)
writeCells(wb, pr, values, k) ==
  IF k >= rowCountOf(pr) * colCountOf(pr) THEN wb
  ELSE LET i  == k \div colCountOf(pr)
           j  == k % colCountOf(pr)
           rc == targetRowCol(pr, i, j)
       IN  writeCells(setCell(wb, pr.sheet, rowColToA1(rc.row, rc.col), values.v[i + 1].v[j + 1]),
                      pr, values, k + 1)

\* the read-back loop of setRange: raw and computed of every cell of the range
resultRows(wb, reg, pr) ==
  [i \in 1..rowCountOf(pr) |->
    [j \in 1..colCountOf(pr) |->
       getRangeCell(wb, reg, pr.sheet, pr.rowsMin + i - 1, pr.colsMin + j - 1, "both")]]

\* a setRange that reads each cell back right after writing it
RECURSIVE writePrefix(_, _, _, _, _)
writePrefix(wb, pr, values, k, n) ==
  IF k >= n THEN wb
  ELSE LET i  == k \div colCountOf(pr)
           j  == k % colCountOf(pr)
           rc == targetRowCol(pr, i, j)
       IN  writePrefix(setCell(wb, pr.sheet, rowColToA1(rc.row, rc.col), values.v[i + 1].v[j + 1]),
                       pr, values, k + 1, n)

writeAndReadInterleaved(wb, reg, pr, values) ==
  [wb |-> writeCells(wb, pr, values, 0),
   rows |-> [i \in 1..rowCountOf(pr) |->
              [j \in 1..colCountOf(pr) |->
                 getRangeCell(writePrefix(wb, pr, values, 0, (i - 1) * colCountOf(pr) + j),
                              reg, pr.sheet, pr.rowsMin + i - 1, pr.colsMin + j - 1, "both")]]]

\* the two loops of setRange: every write, then every read-back
writeThenRead(wb, reg, pr, values) ==
  LET wb2 == writeCells(wb, pr, values, 0)
  IN  [wb |-> wb2, rows |-> resultRows(wb2, reg, pr)]

\* the record setRange returns, together with the workbook written
setRangeResult(pr, out) ==
  [t |-> "result", ok |-> TRUE, sheet |-> pr.sheet, range |-> rangeText(pr),
   rows |-> out.rows, wb |-> out.wb]

\* a setRange call that raised: the Error, and the workbook as the call left it
raisedIn(wb, thrown) == [t |-> "thrown", message |-> thrown.message, wb |-> wb]

shapeError(values, pr) ==
  Thrown(<<"values shape ">> \o natToString(Len(values.v)) \o <<"x">>
         \o natToString(Len(values.v[1].v)) \o <<" does not match range size ">>
         \o natToString(rowCountOf(pr)) \o <<"x">> \o natToString(colCountOf(pr)))

\* a setRange that finds the shape mismatch inside its write loop, after the
\* first cell has been written
setRangeOfChecksWhileWriting(wb, reg, pr, values) ==
  IF isThrown(pr) THEN raisedIn(wb, pr)
  ELSE IF shapeMismatch(values, rowCountOf(pr), colCountOf(pr))
  THEN raisedIn(IF values.v[1].v = <<>> THEN wb
                ELSE setCell(wb, pr.sheet, rowColToA1(pr.rowsMin, pr.colsMin),
                             values.v[1].v[1]),
                shapeError(values, pr))
  ELSE setRangeResult(pr, writeThenRead(wb, reg, pr, values))

\* setRange once values has been found to be a matrix and the range text has
\* been parsed to pr
setRangeOf(wb, reg, pr, values) ==
  IF isThrown(pr) THEN raisedIn(wb, pr)
  ELSE IF shapeMismatch(values, rowCountOf(pr), colCountOf(pr))
  THEN raisedIn(wb, shapeError(values, pr))
  ELSE setRangeResult(pr, writeThenRead(wb, reg, pr, values))

\* setRange: what it raised or the record it returned, together with the
\* workbook it left
setRange(wb, reg, sheetName, rangeStr, values) ==
  IF ~isNonEmpty2D(values)
  THEN raisedIn(wb, Thrown(<<"values must be a non-empty 2D array">>))
  ELSE setRangeOf(wb, reg, parseRangeRef(rangeStr, sheetName), values)

\* ------------------------------------------------------------------------
\* web/src/app/api/groq/[...path]/route.js: the proxy to the inference API
\* ------------------------------------------------------------------------

ApiGroq == <<"/","a","p","i","/","g","r","o","q">>

\* the end of the last occurrence of pat in s, 0 when there is none
lastEndOf(s, pat) ==
  IF Contains(s, pat)
  THEN CHOOSE e \in Len(pat)..Len(s) :
         /\ SubSeq(s, e - Len(pat) + 1, e) = pat
         /\ \A f \in (e + 1)..Len(s) : SubSeq(s, f - Len(pat) + 1, f) # pat
  ELSE 0

\* url.pathname.replace(/^.*\/api\/groq/, '') || '/'
relativePath(pathname) ==
  IF SubSeq(pathname, lastEndOf(pathname, ApiGroq) + 1, Len(pathname)) = <<>>
  THEN <<"/">>
  ELSE SubSeq(pathname, lastEndOf(pathname, ApiGroq) + 1, Len(pathname))

ChatCompletionsPaths ==
  { <<"/","o","p","e","n","a","i","/","v","1","/","c","h","a","t","/",
      "c","o","m","p","l","e","t","i","o","n","s">>,
    <<"/","c","h","a","t","/","c","o","m","p","l","e","t","i","o","n","s">> }

\* only chat completions are let through
pathAllowed(relative) == relative \in ChatCompletionsPaths

ApiBase == <<"https://api.groq.com">>

jsonError(status, message) ==
  [status |-> status, error |-> message, sent |-> <<>>]

\* the request handed to fetch: the body is passed on as it came
upstreamRequest(req, relative, apiKey) ==
  [target |-> ApiBase \o relative \o req.search, method |-> req.method,
   authorization |-> <<"Bearer ">> \o apiKey, body |-> req.body]

\* the response once fetch has answered res, or has thrown
forwarded(sent, res) ==
  IF isThrown(res) THEN [status |-> 500, error |-> res.message, sent |-> <<sent>>]
  ELSE [status |-> res.status, error |-> <<>>, sent |-> <<sent>>]

\* forward(req) with the environment's key and the outcome of the fetch; sent
\* holds the request that went upstream, if one did
forward(req, apiKey, res) ==
  IF apiKey = <<>> THEN jsonError(500, <<"Missing GROQ_API_KEY">>)
  ELSE IF ~pathAllowed(relativePath(req.pathname)) THEN jsonError(404, <<"Not found">>)
  ELSE forwarded(upstreamRequest(req, relativePath(req.pathname), apiKey), res)


\* ------------------------------------------------------------------------
\* engine.js: AI cache/fetch helpers.  ai = [cache, inFlight, calls]: the
\* _aiCache map, the keys of the _aiInFlight map, and the invocations of the
\* fetcher in order, each with its key and the state of its fetch
\* ------------------------------------------------------------------------

\* String(prompt || '')
aiKey(prompt) == jsString(IF truthy(prompt) THEN prompt ELSE Str(<<>>))

\* line 214: val == null ? '' : String(val)
cachedValue(val) == IF val.t = "undefined" THEN <<>> ELSE jsString(val)

\* line 217: String(e && (e.message || e)) for e an Error or a plain value
cachedError(e) ==
  IF e.t = "thrown"
  THEN IF e.message # <<>> THEN e.message ELSE <<"E","r","r","o","r">>
  ELSE jsString(e)

\* lines 209-228 up to the return: outcome is what this._aiFetcher(key) does
\* when invoked, return a promise (or a value, which await wraps in one) or
\* throw before returning.  A throw is caught inside the async function
\* before it has suspended, so lines 217 and 219 run before line 226.
fetchAndCacheAi(ai, prompt, outcome) ==
  LET key == aiKey(prompt)
  IN  IF key \in ai.inFlight THEN ai
      ELSE IF outcome.kind = "throws"
      THEN [cache    |-> mapSet(ai.cache, key, cachedError(outcome.e)),
            inFlight |-> (ai.inFlight \ {key}) \cup {key},
            calls    |-> Append(ai.calls, [key |-> key, state |-> "threw"])]
      ELSE [cache    |-> ai.cache,
            inFlight |-> ai.inFlight \cup {key},
            calls    |-> Append(ai.calls, [key |-> key, state |-> "pending"])]

\* lines 230-234
requestAi(ai, prompt, outcome) ==
  LET key == aiKey(prompt)
  IN  IF key \in DOMAIN ai.cache \/ key \in ai.inFlight THEN ai
      ELSE fetchAndCacheAi(ai, Str(key), outcome)

\* lines 213-223 after the await: the promise of invocation i has settled
\* with result, fulfilled with a value or rejected with a reason
settleFetch(ai, i, result) ==
  [cache    |-> mapSet(ai.cache, ai.calls[i].key,
                       IF result.kind = "fulfilled" THEN cachedValue(result.val)
                       ELSE cachedError(result.e)),
   inFlight |-> ai.inFlight \ {ai.calls[i].key},
   calls    |-> [ai.calls EXCEPT ![i].state = result.kind]]

\* lines 199-202
getAiCached(ai, prompt) ==
  IF aiKey(prompt) \in DOMAIN ai.cache THEN Str(ai.cache[aiKey(prompt)]) ELSE Undefined

\* lines 204-207
hasAiCached(ai, prompt) == aiKey(prompt) \in DOMAIN ai.cache

\* ------------------------------------------------------------------------
\* The engine as a state machine. sheets and registry are the fields of the
\* engine; last records the latest API call, its arguments and its outcome;
\* nwrites counts the calls that write.
\* ------------------------------------------------------------------------

MaxWrites == 3

aiVars == <<aiCache, aiInFlight, aiCalls>>

\* new SpreadsheetEngine()
Init ==
  /\ sheets = <<>>
  /\ registry = EmptyRegistry
  /\ last = [op |-> "new"]
  /\ nwrites = 0
  /\ aiCache = <<>>
  /\ aiInFlight = {}
  /\ aiCalls = <<>>

AddSheet(sheetName) ==
  /\ nwrites < MaxWrites
  /\ sheets' = addSheet(sheets, sheetName)
  /\ last' = [op |-> "addSheet", sheetName |-> sheetName, result |-> sheetName]
  /\ nwrites' = nwrites + 1
  /\ UNCHANGED <<registry, aiVars>>

SetCell(sheetName, address, value) ==
  /\ nwrites < MaxWrites
  /\ sheets' = setCell(sheets, sheetName, address, value)
  /\ last' = [op |-> "setCell", sheetName |-> sheetName, address |-> address,
              value |-> value]
  /\ nwrites' = nwrites + 1
  /\ UNCHANGED <<registry, aiVars>>

\* a read writes nothing: sheets is what the lookups of the call leave
GetCell(sheetName, address) ==
  /\ last' = [op |-> "getCell", sheetName |-> sheetName, address |-> address,
              result |-> getCell(sheets, sheetName, address)]
  /\ sheets' = sheetsAfterGet(sheets, sheetName)
  /\ UNCHANGED <<registry, nwrites, aiVars>>

\* the effect of an evaluateCell call that ended with out
EvaluateCellDone(sheetName, address, out) ==
  /\ last' = [op |-> "evaluateCell", sheetName |-> sheetName, address |-> address,
              out |-> out]
  /\ sheets' = sheetsAfterGets(sheets, out.st.log)

\* out is what the call returned or raised (out.res) and the visit set it left
EvaluateCell(sheetName, address) ==
  /\ EvaluateCellDone(sheetName, address, evaluate(sheets, registry, sheetName, address))
  /\ UNCHANGED <<registry, nwrites, aiVars>>

\* evaluateAst(sheetName, node, new Set()) called by the host on a tree it built
EvaluateAst(sheetName, node) ==
  /\ last' = [op |-> "evaluateAst", sheetName |-> sheetName, node |-> node,
              out |-> evaluateAst(sheets, registry, sheetName, node, NewVisit)]
  /\ UNCHANGED <<sheets, registry, nwrites, aiVars>>

\* the effect of a getRange call that returned or raised r: every cell of
\* the range is looked up on the sheet of the range
GetRangeDone(sheetName, rangeStr, mode, r) ==
  /\ last' = [op |-> "getRange", sheetName |-> sheetName, rangeStr |-> rangeStr,
              mode |-> mode, sheetsBefore |-> DOMAIN sheets, result |-> r]
  /\ sheets' = IF isThrown(r) THEN sheets ELSE sheetsAfterGet(sheets, r.sheet)

GetRange(sheetName, rangeStr, mode) ==
  /\ GetRangeDone(sheetName, rangeStr, mode,
                  getRange(sheets, registry, sheetName, rangeStr, mode))
  /\ UNCHANGED <<registry, nwrites, aiVars>>

\* the effect of a setRange call that returned or raised r
SetRangeDone(sheetName, rangeStr, values, r) ==
  /\ sheets' = r.wb
  /\ last' = [op |-> "setRange", sheetName |-> sheetName, rangeStr |-> rangeStr,
              values |-> values, sheetsBefore |-> DOMAIN sheets,
              result |-> IF isThrown(r) THEN Thrown(r.message)
                         ELSE [t |-> "result", ok |-> r.ok, sheet |-> r.sheet,
                               range |-> r.range, rows |-> r.rows]]

SetRange(sheetName, rangeStr, values) ==
  /\ nwrites < MaxWrites
  /\ SetRangeDone(sheetName, rangeStr, values,
                  setRange(sheets, registry, sheetName, rangeStr, values))
  /\ nwrites' = nwrites + 1
  /\ UNCHANGED <<registry, aiVars>>

\* registerBuiltins(engine.registry)
RegisterBuiltins ==
  /\ nwrites < MaxWrites
  /\ registry' = registerBuiltins(registry)
  /\ last' = [op |-> "registerBuiltins", before |-> registry]
  /\ nwrites' = nwrites + 1
  /\ UNCHANGED <<sheets, aiVars>>

\* before is the registry as the call found it
RegisterFunction(name, fn) ==
  /\ nwrites < MaxWrites
  /\ registry' = register(registry, name, fn)
  /\ last' = [op |-> "registerFunction", name |-> name, fn |-> fn, before |-> registry]
  /\ nwrites' = nwrites + 1
  /\ UNCHANGED <<sheets, aiVars>>

HasFunction(name) ==
  /\ last' = [op |-> "hasFunction", name |-> name, result |-> has(registry, name)]
  /\ UNCHANGED <<sheets, registry, nwrites, aiVars>>

\* engine.registry.get(name)
GetFunction(name) ==
  /\ last' = [op |-> "getFunction", name |-> name, result |-> get(registry, name)]
  /\ UNCHANGED <<sheets, registry, nwrites, aiVars>>

\* engine.registry.names()
Names ==
  /\ last' = [op |-> "names", result |-> names(registry)]
  /\ UNCHANGED <<sheets, registry, nwrites, aiVars>>

\* the exported utility rowColToA1(row, col)
RowColToA1(row, col) ==
  /\ last' = [op |-> "rowColToA1", row |-> row, col |-> col,
              result |-> rowColToA1(row, col)]
  /\ UNCHANGED <<sheets, registry, nwrites, aiVars>>

\* the exported utility a1ToRowCol(a1)
A1ToRowCol(a1) ==
  /\ last' = [op |-> "a1ToRowCol", a1 |-> a1, result |-> a1ToRowCol(a1)]
  /\ UNCHANGED <<sheets, registry, nwrites, aiVars>>

\* POST of the proxy route: the handler answers req, with apiKey in the
\* environment and res the outcome of the fetch it may make
ProxyPost(req, apiKey, res) ==
  /\ last' = [op |-> "proxyPost", req |-> req, apiKey |-> apiKey,
              response |-> forward(req, apiKey, res)]
  /\ UNCHANGED <<sheets, registry, nwrites, aiVars>>

\* the AI helpers' state as one record
aiState == [cache |-> aiCache, inFlight |-> aiInFlight, calls |-> aiCalls]

AiDone(ai) ==
  /\ aiCache' = ai.cache
  /\ aiInFlight' = ai.inFlight
  /\ aiCalls' = ai.calls
  /\ UNCHANGED <<sheets, registry, nwrites>>

\* engine.requestAi(prompt), the fetcher in place doing outcome when invoked
RequestAi(prompt, outcome) ==
  /\ last' = [op |-> "requestAi", prompt |-> prompt, outcome |-> outcome]
  /\ AiDone(requestAi(aiState, prompt, outcome))

\* the promise of the i-th fetcher invocation settles with result and the
\* suspended _fetchAndCacheAi continues
SettleFetch(i, result) ==
  /\ i \in DOMAIN aiCalls
  /\ aiCalls[i].state = "pending"
  /\ last' = [op |-> "settleFetch", i |-> i, result |-> result]
  /\ AiDone(settleFetch(aiState, i, result))

GetAiCached(prompt) ==
  /\ last' = [op |-> "getAiCached", prompt |-> prompt,
              result |-> getAiCached(aiState, prompt)]
  /\ UNCHANGED <<sheets, registry, nwrites, aiVars>>

HasAiCached(prompt) ==
  /\ last' = [op |-> "hasAiCached", prompt |-> prompt,
              result |-> hasAiCached(aiState, prompt)]
  /\ UNCHANGED <<sheets, registry, nwrites, aiVars>>

\* ------------------------------------------------------------------------
\* The inputs the calls are drawn from
\* ------------------------------------------------------------------------

SheetS == <<"S">>
SheetT == <<"T">>

A1 == <<"A","1">>
A2 == <<"A","2">>
B1 == <<"B","1">>

NameBoom == <<"B","o","o","m">>
NameTable == <<"T","a","b","l","e">>

FormulaRefA1 == Str(<<"=","A","1">>)
FormulaRefA2 == Str(<<"=","A","2">>)
FormulaRefB1 == Str(<<"=","B","1">>)
FormulaA2Plus1 == Str(<<"=","A","2","+","1">>)
FormulaSumA2 == Str(<<"=","S","U","M","(","A","2",")">>)
FormulaUnconsumed == Str(<<"=","1",")">>)
FormulaUnbalanced == Str(<<"=","(","1">>)
FormulaBadRef == Str(<<"=","S","!">>)
FormulaSignOnly == Str(<<"=","+">>)
FormulaTableBoom == Str(<<"=","T","A","B","L","E","(","B","o","o","m","(",")",",","2",")">>)

\* ------------------------------------------------------------------------
\* Spec: the store. Sheets are added, cells are written under the textual
\* forms of an address, read back and evaluated.
\* ------------------------------------------------------------------------

StoreSheets == {SheetS, SheetT}

StoreAddresses == {A1, <<"a","1">>, <<"$","A","$","1">>}

StoreContents == {Num(1), FormulaRefA1}

Next ==
  \/ \E s \in StoreSheets : AddSheet(s)
  \/ \E s \in StoreSheets, a \in StoreAddresses, v \in StoreContents : SetCell(s, a, v)
  \/ \E s \in StoreSheets, a \in StoreAddresses : GetCell(s, a)
  \/ \E s \in StoreSheets, a \in StoreAddresses : EvaluateCell(s, a)

Spec == Init /\ [][Next]_vars

\* ------------------------------------------------------------------------
\* SpecEval: an engine set up the way the application and the tests set it up
\* (built-ins registered, two user functions registered, one sheet added),
\* whose cells are then written and evaluated.
\* ------------------------------------------------------------------------

EvalContents ==
  { Num(1), FormulaRefA1, FormulaRefA2, FormulaRefB1, FormulaA2Plus1, FormulaSumA2,
    FormulaUnconsumed, FormulaTableBoom }

EvalCells == {A1, A2, B1}

\* addresses handed to evaluateCell: canonical forms, a marked lower-case form
\* and one that is no address
EvalAddresses == {A1, A2, B1, <<"$","a","$","1">>, <<"A">>}

InitEval ==
  /\ sheets = addSheet(<<>>, SheetS)
  /\ registry = register(register(registerBuiltins(EmptyRegistry), NameBoom, "boom"),
                         NameTable, "table")
  /\ last = [op |-> "new"]
  /\ nwrites = 0
  /\ aiCache = <<>>
  /\ aiInFlight = {}
  /\ aiCalls = <<>>

NextEval ==
  \/ \E a \in EvalCells, v \in EvalContents : SetCell(SheetS, a, v)
  \/ \E a \in EvalAddresses : EvaluateCell(SheetS, a)

SpecEval == InitEval /\ [][NextEval]_vars

\* ------------------------------------------------------------------------
\* SpecParse: cells holding formula text the parser rejects, evaluated.
\* ------------------------------------------------------------------------

ParseContents ==
  { Num(1), FormulaRefA2, FormulaUnconsumed, FormulaUnbalanced, FormulaBadRef,
    FormulaSignOnly }

ParseCells == {A1, A2}

ParseAddresses == {A1, A2, <<"$","a","$","1">>, <<"A">>}

NextParse ==
  \/ \E a \in ParseCells, v \in ParseContents : SetCell(SheetS, a, v)
  \/ \E a \in ParseAddresses : EvaluateCell(SheetS, a)
  \/ \E a \in ParseCells : GetCell(SheetS, a)

SpecParse == InitEval /\ [][NextParse]_vars

\* ------------------------------------------------------------------------
\* SpecRange: the range API on an engine whose sheets are added on the way.
\* ------------------------------------------------------------------------

RangeSheets == {SheetS}

RangeTexts == {<<"A","1",":","A","2">>, <<"A","2",":","A","1">>, <<"A","1",":","A","1">>, <<"T","!","A","1",":","A","2">>, <<"A","1",":","T","!","A","2">>, <<"A","1">>}

Modes == {"raw", "computed", "both"}

Matrix(rows) == Arr([i \in 1..Len(rows) |-> Arr(rows[i])])

\* what a caller may hand to setRange as values: matrices of the shapes of the
\* ranges, a ragged one, one of the wrong shape, and values that are no matrix
ValuesArgs ==
  { Matrix(<< <<Num(1)>>, <<Num(2)>> >>),
    Matrix(<< <<FormulaRefA2>>, <<Num(5)>> >>),
    Matrix(<< <<Num(7)>> >>),
    Matrix(<< <<Num(1)>>, <<Num(2), Num(3)>> >>),
    Matrix(<< <<Num(1), Num(2)>> >>),
    Matrix(<< <<>> >>),
    Arr(<<Num(1), Num(2)>>),
    Arr(<<>>),
    Num(7) }

NextRange ==
  \/ \E s \in StoreSheets : AddSheet(s)
  \/ \E s \in RangeSheets, r \in RangeTexts, v \in ValuesArgs : SetRange(s, r, v)
  \/ \E s \in RangeSheets, r \in RangeTexts, m \in Modes : GetRange(s, r, m)

SpecRange == Init /\ [][NextRange]_vars

\* ------------------------------------------------------------------------
\* Properties. The latest call is in last; after evaluateCell, getRange and
\* setRange the workbook in sheets is the one the call left behind.
\* ------------------------------------------------------------------------

Evaluated == last.op = "evaluateCell"

\* the address of the latest evaluateCell call, normalized
EvaluatedAt == normalizeAddress(last.address, last.sheetName)

EvaluatedValid == Evaluated /\ ~isThrown(EvaluatedAt)

EvaluatedCell == [sheet |-> EvaluatedAt.sheet, addr |-> EvaluatedAt.addr]

\* the formula tree of a cell, when the cell holds a formula that parses
cellAst(wb, c) ==
  LET raw == getCell(wb, c.sheet, c.addr)
  IN  IF isFormula(raw) THEN parseFormula(Tail(raw.v)) ELSE Thrown(<<"no formula">>)

\* the cells a formula tree refers to, read on sheet sheetName
RECURSIVE astRefs(_, _)
astRefs(node, sheetName) ==
  CASE node.type = "Cell" ->
         LET na == normalizeAddress(node.ref, sheetName)
         IN  IF isThrown(na) THEN {} ELSE {[sheet |-> na.sheet, addr |-> na.addr]}
    [] node.type = "Range" ->
         LET n1 == normalizeAddress(qualifyIfNeeded(node.start, sheetName), sheetName)
             n2 == normalizeAddress(qualifyIfNeeded(node.end, sheetName), sheetName)
         IN  IF isThrown(n1) \/ isThrown(n2) THEN {}
             ELSE IF n1.sheet # n2.sheet THEN {}
             ELSE {[sheet |-> n1.sheet, addr |-> a] : a \in Range(expandRange(n1.addr, n2.addr))}
    [] node.type = "Call" ->
         UNION {astRefs(node.args[k], sheetName) : k \in 1..Len(node.args)}
    [] node.type = "BinaryOp" ->
         astRefs(node.left, sheetName) \cup astRefs(node.right, sheetName)
    [] OTHER -> {}

\* the cells the formula of cell c refers to
refsOf(wb, c) ==
  IF isThrown(cellAst(wb, c)) THEN {} ELSE astRefs(cellAst(wb, c), c.sheet)

\* the same, for a formula that is nothing but one cell reference
bareRefsOf(wb, c) ==
  IF isThrown(cellAst(wb, c)) THEN {}
  ELSE IF cellAst(wb, c).type = "Cell" THEN astRefs(cellAst(wb, c), c.sheet)
  ELSE {}

storedCells(wb) ==
  UNION {{[sheet |-> s, addr |-> a] : a \in DOMAIN wb[s]} : s \in DOMAIN wb}

\* the cells reached from the cells of from in 1..n reference steps
RECURSIVE reach(_, _, _)
reach(wb, from, n) ==
  IF n = 0 THEN {}
  ELSE LET step == UNION {refsOf(wb, c) : c \in from}
       IN  step \cup reach(wb, step, n - 1)

RECURSIVE bareReach(_, _, _)
bareReach(wb, from, n) ==
  IF n = 0 THEN {}
  ELSE LET step == UNION {bareRefsOf(wb, c) : c \in from}
       IN  step \cup bareReach(wb, step, n - 1)

onCycle(wb, c) == c \in reach(wb, {c}, Cardinality(storedCells(wb)))

onBareCycle(wb, c) == c \in bareReach(wb, {c}, Cardinality(storedCells(wb)))

isCycleError(v) ==
  isCellError(v) /\ v.code = ERROR.CYCLE /\ StartsWith(errorToString(v), <<"#CYCLE!">>)

\* C1 as stated: evaluateCell on a cell of any reference cycle, also one that
\* passes through a binary operation or a call of SUM, returns a CYCLE error.
CycleAlwaysCycleError ==
  (EvaluatedValid /\ onCycle(sheets, EvaluatedCell)) => isCycleError(last.out.res)

\* C1: evaluateCell on a cell of a reference cycle on which every formula is
\* one bare cell reference returns a CYCLE error whose text form is #CYCLE!.
BareCycleIsCycleError ==
  (EvaluatedValid /\ onBareCycle(sheets, EvaluatedCell)) => isCycleError(last.out.res)

\* a cell of a cycle of at least two bare references was evaluated to CYCLE
BareCycleEvaluated ==
  /\ EvaluatedValid
  /\ onBareCycle(sheets, EvaluatedCell)
  /\ Cardinality(bareReach(sheets, {EvaluatedCell}, Cardinality(storedCells(sheets)))) >= 2
  /\ isCycleError(last.out.res)

\* the log of an evaluation replayed against the chain of evaluateCell calls
\* in progress: chain holds the keys of the calls entered and not yet left
RECURSIVE chainLocal(_, _)
chainLocal(log, chain) ==
  IF log = <<>> THEN chain = <<>>
  ELSE LET e == Head(log)
       IN  CASE e.ev = "enter" ->
                  /\ e.key \notin Range(chain)
                  /\ e.visiting = Range(chain) \cup {e.key}
                  /\ chainLocal(Tail(log), Append(chain, e.key))
             [] e.ev = "exit" ->
                  /\ chain # <<>>
                  /\ chain[Len(chain)] = e.key
                  /\ e.visiting = Range(SubSeq(chain, 1, Len(chain) - 1))
                  /\ chainLocal(Tail(log), SubSeq(chain, 1, Len(chain) - 1))
             [] e.ev = "cycle" ->
                  /\ e.key \in Range(chain)
                  /\ e.visiting = Range(chain)
                  /\ chainLocal(Tail(log), chain)
             [] OTHER -> FALSE

\* C2: at every step of an evaluation the visit set holds exactly the keys of
\* the evaluateCell calls in progress, every call that returns leaves the set
\* as it found it, and the set is empty when the outermost call has returned.
VisitSetIsCallChain ==
  Evaluated => /\ chainLocal(last.out.st.log, <<>>)
               /\ last.out.st.visiting = {}

\* a nested evaluation that ended in a VALUE error (a parse error or a function
\* that raised) has been through the visit set
NestedErrorEvaluated ==
  /\ EvaluatedValid
  /\ Len(last.out.st.log) >= 4
  /\ last.out.st.log[2].ev = "enter"
  /\ isCellError(last.out.res)
  /\ last.out.res.code = ERROR.VALUE

\* upper-case column letters followed by the row number, no absolute markers
isCanonical(key) ==
  \E k \in 1..(Len(key) - 1) :
    /\ \A i \in 1..k : key[i] \in UpperSet
    /\ \A i \in (k + 1)..Len(key) : key[i] \in DigitSet
    /\ key[k + 1] # "0"

\* C4 as stated: after any sequence of addSheet and setCell calls with valid
\* addresses (lower-case and $-marked forms included) every key stored in
\* every sheet map is canonical.
StoredKeysCanonical ==
  \A c \in storedCells(sheets) : isCanonical(c.addr)

RangeSet == last.op = "setRange" /\ ~isThrown(last.result)

\* getRange(sheet, range, 'raw') on the workbook the latest setRange left
ReadBackRaw == getRange(sheets, registry, last.sheetName, last.rangeStr, "raw")

\* C5: after setRange(s, R, M) has accepted M, the rows of getRange(s, R,
\* 'raw') hold raw values equal to M position by position, whichever way
\* round the endpoints of R are written.
RangeRoundTripRaw ==
  RangeSet =>
    /\ ~isThrown(ReadBackRaw)
    /\ Len(ReadBackRaw.rows) = Len(last.values.v)
    /\ \A i \in 1..Len(last.values.v) :
         /\ Len(ReadBackRaw.rows[i]) = Len(last.values.v[i].v)
         /\ \A j \in 1..Len(last.values.v[i].v) :
              ReadBackRaw.rows[i][j].raw = last.values.v[i].v[j]

\* a two-row matrix was written to a range whose endpoints are bottom-up
ReversedRangeWritten ==
  /\ RangeSet
  /\ last.rangeStr = <<"A","2",":","A","1">>
  /\ Len(last.values.v) = 2
  /\ ReadBackRaw.rows[1][1].raw = last.values.v[1].v[1]
  /\ ReadBackRaw.rows[1][1].address = A1

\* C6 as stated: getRange and setRange called with a sheet name that is not in
\* the workbook raise, return no result record and do not create the sheet.
RangeApiRejectsMissingSheet ==
  (last.op \in {"getRange", "setRange"} /\ last.sheetName \notin last.sheetsBefore)
    => (isThrown(last.result) /\ DOMAIN sheets = last.sheetsBefore)

\* the range of the latest setRange call, parsed
RangeOfCall == parseRangeRef(last.rangeStr, last.sheetName)

\* values is a matrix of rows whose shape equals the dimensions of the range pr
shapeEquals(values, pr) ==
  /\ values.t = "arr"
  /\ Len(values.v) = pr.rowsMax - pr.rowsMin + 1
  /\ \A i \in 1..Len(values.v) :
       /\ values.v[i].t = "arr"
       /\ Len(values.v[i].v) = pr.colsMax - pr.colsMin + 1

\* C7: setRange on a well-formed range raises for every values argument that
\* is no non-empty matrix of rows or whose row count or any row length differs
\* from the range's, and accepts exactly the matrices of the range's shape.
SetRangeAcceptsExactlyShape ==
  (last.op = "setRange" /\ ~isThrown(RangeOfCall))
    => (isThrown(last.result) <=> ~shapeEquals(last.values, RangeOfCall))

\* a ragged matrix with the right number of rows and a right first row was
\* rejected
RaggedMatrixRejected ==
  /\ last.op = "setRange"
  /\ ~isThrown(RangeOfCall)
  /\ isNonEmpty2D(last.values)
  /\ Len(last.values.v) = rowCountOf(RangeOfCall)
  /\ Len(last.values.v[1].v) = colCountOf(RangeOfCall)
  /\ \E i \in 1..Len(last.values.v) : Len(last.values.v[i].v) # colCountOf(RangeOfCall)
  /\ isThrown(last.result)

\* C8: every computed value setRange returns equals evaluateCell on the
\* workbook as it is after the whole matrix was written, and every raw value
\* it returns equals the matrix element written there.
SetRangeComputesAfterAllWrites ==
  RangeSet =>
    \A i \in 1..Len(last.result.rows) : \A j \in 1..Len(last.result.rows[i]) :
      /\ last.result.rows[i][j].computed
           = evaluate(sheets, registry, last.result.sheet,
                      last.result.rows[i][j].address).res
      /\ last.result.rows[i][j].raw = last.values.v[i].v[j]

\* a formula written first saw the number written after it in the same call
EarlierFormulaSawLaterWrite ==
  /\ RangeSet
  /\ last.rangeStr = <<"A","1",":","A","2">>
  /\ last.values.v[1].v[1] = FormulaRefA2
  /\ last.values.v[2].v[1] = Num(5)
  /\ last.result.rows[1][1].computed = Num(5)

\* what the parser makes of the content of the cell evaluated
EvaluatedParse ==
  parseFormula(Tail(getCell(sheets, EvaluatedCell.sheet, EvaluatedCell.addr).v))

EvaluatedFormula == isFormula(getCell(sheets, EvaluatedCell.sheet, EvaluatedCell.addr))

RaisingCallEvaluated ==
  /\ EvaluatedValid
  /\ EvaluatedFormula
  /\ ~isThrown(EvaluatedParse)
  /\ EvaluatedParse.type = "Call"
  /\ get(registry, EvaluatedParse.name) = get(registry, NameTable)
  /\ Len(EvaluatedParse.args) = 2
  /\ EvaluatedParse.args[1].type = "Call"
  /\ get(registry, EvaluatedParse.args[1].name) = get(registry, NameBoom)
  /\ isThrown(callFunction(get(registry, NameBoom), <<>>))

\* C10: a call of a registered function that raises evaluates to a VALUE
\* error whose message contains the function's name (in the upper case of the
\* registry); the exception does not escape evaluateCell, and the enclosing
\* call goes on with that error as the value of its argument.
RaisingFunctionBecomesValueError ==
  RaisingCallEvaluated =>
    /\ ~isThrown(last.out.res)
    /\ last.out.res.t = "arr"
    /\ Len(last.out.res.v) = 2
    /\ isCellError(last.out.res.v[1])
    /\ last.out.res.v[1].code = ERROR.VALUE
    /\ Contains(last.out.res.v[1].message, toUpperCase(NameBoom))
    /\ last.out.res.v[2] = Num(2)

\* the enclosing call returned its arguments, the error first
RaisingCallContinued ==
  /\ RaisingCallEvaluated
  /\ last.out.res.t = "arr"
  /\ isCellError(last.out.res.v[1])
  /\ last.out.res.v[2] = Num(2)

\* ------------------------------------------------------------------------
\* SpecCall: calls of functions the registry does not hold, with arguments
\* that are references, values, errors and references the address layer
\* rejects.
\* ------------------------------------------------------------------------

FormulaNopeCells == Str(<<"=","N","O","P","E","(","A","2",",","B","1",")">>)
FormulaNopeNoArgs == Str(<<"=","N","o","p","e","(",")">>)
FormulaNopeErrors == Str(<<"=","n","o","p","e","(","1","/","0",",","B","o","o","m","(",")",")">>)
FormulaNopeBadRef == Str(<<"=","N","O","P","E","(","$","$","A","1",")">>)

CallContents ==
  { Num(1), FormulaNopeCells, FormulaNopeNoArgs, FormulaNopeErrors, FormulaNopeBadRef,
    FormulaSumA2 }

NextCall ==
  \/ \E a \in EvalCells, v \in CallContents : SetCell(SheetS, a, v)
  \/ \E a \in EvalCells : EvaluateCell(SheetS, a)

SpecCall == InitEval /\ [][NextCall]_vars

\* no registration of reg has a name that is a case variant of name
registeredUnderNoCase(reg, name) ==
  \A k \in DOMAIN reg.originalNames :
    toUpperCase(reg.originalNames[k]) # toUpperCase(name)

\* every reference written in the formula tree node is one the address layer
\* accepts
RECURSIVE refsValid(_, _)
refsValid(node, sheetName) ==
  CASE node.type = "Cell" -> ~isThrown(normalizeAddress(node.ref, sheetName))
    [] node.type = "Range" ->
         /\ ~isThrown(normalizeAddress(qualifyIfNeeded(node.start, sheetName), sheetName))
         /\ ~isThrown(normalizeAddress(qualifyIfNeeded(node.end, sheetName), sheetName))
    [] node.type = "Call" -> \A k \in 1..Len(node.args) : refsValid(node.args[k], sheetName)
    [] node.type = "BinaryOp" ->
         refsValid(node.left, sheetName) /\ refsValid(node.right, sheetName)
    [] OTHER -> TRUE

\* the keys of the evaluateCell calls a log records, in the order of entry
RECURSIVE enterKeys(_)
enterKeys(log) ==
  IF log = <<>> THEN <<>>
  ELSE (IF Head(log).ev = "enter" THEN <<Head(log).key>> ELSE <<>>) \o enterKeys(Tail(log))

\* the formula evaluated is a call of a function registered under no case
\* variant of its name
UnknownCallEvaluated ==
  /\ EvaluatedValid
  /\ EvaluatedFormula
  /\ ~isThrown(EvaluatedParse)
  /\ EvaluatedParse.type = "Call"
  /\ registeredUnderNoCase(registry, EvaluatedParse.name)

isNameError(v) == isCellError(v) /\ v.code = ERROR.NAME

\* the arguments of the call evaluated are references to other cells that
\* hold no formula
ArgsArePlainCells ==
  \A k \in 1..Len(EvaluatedParse.args) :
    /\ EvaluatedParse.args[k].type = "Cell"
    /\ ~isThrown(normalizeAddress(EvaluatedParse.args[k].ref, EvaluatedCell.sheet))
    /\ normalizeAddress(EvaluatedParse.args[k].ref, EvaluatedCell.sheet).addr
         # EvaluatedCell.addr
    /\ ~isFormula(getCell(sheets, EvaluatedCell.sheet,
                          normalizeAddress(EvaluatedParse.args[k].ref,
                                           EvaluatedCell.sheet).addr))

\* the visit keys of the arguments of the call evaluated, in argument order
ArgKeys ==
  [k \in 1..Len(EvaluatedParse.args) |->
     visitKey(EvaluatedCell.sheet,
              normalizeAddress(EvaluatedParse.args[k].ref, EvaluatedCell.sheet).addr)]

\* C11 as stated: a call of an unregistered function evaluates to a NAME
\* error whatever its argument expressions are.
UnknownCallIsNameError ==
  UnknownCallEvaluated => isNameError(last.out.res)

\* C11: a call of a function registered under no case variant evaluates to
\* the NAME error naming the function when every reference among its
\* arguments is one the address layer accepts; its arguments are evaluated
\* first, in order, so that an argument whose reference is rejected raises
\* before the lookup and the cell evaluates to a VALUE error instead.
UnknownCallNameErrorAfterArgs ==
  UnknownCallEvaluated =>
    /\ refsValid(EvaluatedParse, EvaluatedCell.sheet)
         => last.out.res = err(ERROR.NAME, <<"Unknown function: ">> \o EvaluatedParse.name)
    /\ ~refsValid(EvaluatedParse, EvaluatedCell.sheet)
         => /\ isCellError(last.out.res)
            /\ last.out.res.code = ERROR.VALUE
            /\ StartsWith(last.out.res.message, <<"Invalid A1: ">>)
    /\ ArgsArePlainCells
         => enterKeys(last.out.st.log)
              = <<visitKey(EvaluatedCell.sheet, EvaluatedCell.addr)>> \o ArgKeys

\* a call of an unregistered function with two cell arguments was evaluated
\* to a NAME error after both cells had been visited in argument order
UnknownCallArgsVisited ==
  /\ UnknownCallEvaluated
  /\ Len(EvaluatedParse.args) = 2
  /\ ArgsArePlainCells
  /\ isNameError(last.out.res)
  /\ enterKeys(last.out.st.log)
       = <<visitKey(SheetS, EvaluatedCell.addr), visitKey(SheetS, A2), visitKey(SheetS, B1)>>

\* ------------------------------------------------------------------------
\* SpecArith: binary operations in A1 over operands of every kind of value:
\* the cells A2 and B1 hold numbers, text, a logical, an error value, a
\* nested sequence or nothing; other operands are literals and expressions
\* that evaluate to errors.
\* ------------------------------------------------------------------------

ArithFormulas ==
  { Str(<<"=","A","2","/","B","1">>), Str(<<"=","A","2","+","B","1">>), Str(<<"=","A","2","-","B","1">>), Str(<<"=","A","2","*","B","1">>), Str(<<"=","0","/","0">>),
    Str(<<"=","T","R","U","E","*","2">>), Str(<<"=","(","1","/","0",")","+","1">>), Str(<<"=","A","1","+","1">>), Str(<<"=","N","O","P","E","(",")","-","1">>), Str(<<"=","B","1",":","B","1","*","2">>) }

ArithValues ==
  { Num(6), Num(0), Num(3), Str(<<"0">>), Str(<<"x">>), Str(<<>>), Bool(TRUE),
    err(ERROR.NA, <<"stored">>), Arr(<<Num(1)>>) }

ArithOperandCells == {A2, B1}

NextArith ==
  \/ \E f \in ArithFormulas : SetCell(SheetS, A1, f)
  \/ \E a \in ArithOperandCells, v \in ArithValues : SetCell(SheetS, a, v)
  \/ \E a \in EvalCells : EvaluateCell(SheetS, a)

SpecArith == InitEval /\ [][NextArith]_vars

\* the formula evaluated is a binary operation
BinaryEvaluated ==
  /\ EvaluatedValid
  /\ EvaluatedFormula
  /\ ~isThrown(EvaluatedParse)
  /\ EvaluatedParse.type = "BinaryOp"

\* what an operand of the binary operation evaluated evaluates to, inside the
\* evaluation of its cell
operandValue(node) ==
  evaluateAst(sheets, registry, EvaluatedCell.sheet, node,
              visitAdd(NewVisit, visitKey(EvaluatedCell.sheet, EvaluatedCell.addr))).res

LeftValue == operandValue(EvaluatedParse.left)

RightValue == operandValue(EvaluatedParse.right)

\* text that reads as a decimal number: blank, or an optional sign and digits
\* with at most one decimal point
isNumericText(s) ==
  LET t == trim(s)
      u == IF t # <<>> /\ t[1] \in {"+", "-"} THEN Tail(t) ELSE t
  IN  \/ t = <<>>
      \/ /\ \A i \in 1..Len(u) : u[i] \in DigitSet \cup {"."}
         /\ Cardinality(Positions(u, ".")) <= 1
         /\ \E i \in 1..Len(u) : u[i] \in DigitSet

isNumeric(v) == v.t = "num" \/ (v.t = "str" /\ isNumericText(v.v))

\* a logical, an absent cell, an error value, a nested sequence or text that
\* is no number
isNonNumeric(v) ==
  \/ v.t \in {"bool", "undefined", "error", "arr"}
  \/ (v.t = "str" /\ ~isNumericText(v.v))

\* C12: a division whose operands both coerce to finite numbers evaluates to
\* the DIV0 error when the right operand is zero (0/0 included) and to the
\* quotient, the number that multiplied by the right operand gives the left
\* one, when it is not.
DivisionByZeroIsDiv0 ==
  (BinaryEvaluated /\ EvaluatedParse.op = "/" /\ isNumeric(LeftValue) /\ isNumeric(RightValue))
    => IF coerceNumber(RightValue) = Num(0)
       THEN last.out.res = err(ERROR.DIV0, <<"Division by zero">>)
       ELSE /\ last.out.res.t = "num"
            /\ numMul(last.out.res, coerceNumber(RightValue)) = coerceNumber(LeftValue)

\* zero divided by zero was evaluated to the DIV0 error
ZeroByZeroEvaluated ==
  /\ BinaryEvaluated
  /\ EvaluatedParse.op = "/"
  /\ EvaluatedParse.left.type = "Cell"
  /\ LeftValue = Num(0)
  /\ RightValue = Num(0)
  /\ isCellError(last.out.res)
  /\ last.out.res.code = ERROR.DIV0

\* C13: a binary operation with an operand that evaluates to a logical, an
\* absent cell, an error value of any kind, a nested sequence or non-numeric
\* text evaluates to the VALUE error of arithmetic, whatever the operator and
\* the other operand are: a logical is not taken as a number and the kind of
\* an operand's error is not kept.
NonNumericOperandIsValueError ==
  (BinaryEvaluated /\ ~isThrown(LeftValue) /\ ~isThrown(RightValue)
     /\ (isNonNumeric(LeftValue) \/ isNonNumeric(RightValue)))
    => last.out.res = err(ERROR.VALUE, <<"Arithmetic with non-numeric values">>)

\* a binary operation whose left operand is an error of another kind (DIV0,
\* CYCLE, NAME or NA) was evaluated to the VALUE error
ErrorOperandEvaluated ==
  /\ BinaryEvaluated
  /\ isCellError(LeftValue)
  /\ LeftValue.code \in {ERROR.DIV0, ERROR.CYCLE, ERROR.NAME, ERROR.NA}
  /\ isNumeric(RightValue)
  /\ isCellError(last.out.res)
  /\ last.out.res.code = ERROR.VALUE

\* ------------------------------------------------------------------------
\* SpecRangeEval: Range nodes handed to evaluateAst, with endpoints in either
\* order, on one sheet and on two, over cells that hold numbers, an error
\* and nothing.
\* ------------------------------------------------------------------------

B2 == <<"B","2">>

FormulaDivZero == Str(<<"=","1","/","0">>)

RangeEvalContents == {Num(1), Num(2), FormulaDivZero}

RangeEvalCells == {A1, B1, A2, B2}

RangeNodes ==
  { RangeNode(A1, B2), RangeNode(B2, A1), RangeNode(B1, A2), RangeNode(<<"S","!","A","1">>, B1),
    RangeNode(A1, <<"T","!","A","1">>), RangeNode(<<"T","!","A","1">>, A2), RangeNode(<<"S","!","A","1">>, <<"T","!","A","1">>),
    RangeNode(<<"T","!","A","1">>, <<"T","!","A","1">>) }

\* the current sheet and the node of the calls: every node on sheet S, and on
\* sheet T two nodes with one endpoint without a sheet
RangeEvalCalls ==
  ({SheetS} \X RangeNodes)
    \cup {<<SheetT, RangeNode(A1, <<"T","!","A","1">>)>>, <<SheetT, RangeNode(<<"S","!","A","1">>, A1)>>}

NextRangeEval ==
  \/ \E a \in RangeEvalCells, v \in RangeEvalContents : SetCell(SheetS, a, v)
  \/ SetCell(SheetT, A1, Num(1))
  \/ \E c \in RangeEvalCalls : EvaluateAst(c[1], c[2])

SpecRangeEval == InitEval /\ [][NextRangeEval]_vars

\* the sheet an endpoint of a Range node names, or the current sheet
endpointSheet(ref, currentSheet) ==
  IF Positions(ref, "!") = {} THEN currentSheet
  ELSE SubSeq(ref, 1, SetMin(Positions(ref, "!")) - 1)

\* the A1 part of an endpoint of a Range node
endpointA1(ref) ==
  IF Positions(ref, "!") = {} THEN ref
  ELSE SubSeq(ref, SetMin(Positions(ref, "!")) + 1, Len(ref))

\* evaluateAst was called on a Range node whose endpoints are addresses
RangeNodeEvaluated ==
  /\ last.op = "evaluateAst"
  /\ last.node.type = "Range"
  /\ parseAbsoluteA1(endpointA1(last.node.start)).ok
  /\ parseAbsoluteA1(endpointA1(last.node.end)).ok

StartSheet == endpointSheet(last.node.start, last.sheetName)

EndSheet == endpointSheet(last.node.end, last.sheetName)

\* C14: evaluateAst on a Range node whose endpoints resolve to different
\* sheets, an endpoint without a sheet resolving to the current sheet, returns
\* the REF error and enters no cell.
CrossSheetRangeIsRefError ==
  (RangeNodeEvaluated /\ StartSheet # EndSheet)
    => /\ isCellError(last.out.res)
       /\ last.out.res.code = ERROR.REF
       /\ last.out.st.log = <<>>

\* a range from an unqualified endpoint to one on another sheet was evaluated
\* to the REF error over a workbook that holds cells on both sheets
CrossSheetRangeEvaluated ==
  /\ RangeNodeEvaluated
  /\ Positions(last.node.start, "!") = {}
  /\ StartSheet # EndSheet
  /\ getCell(sheets, StartSheet, A1) # Undefined
  /\ getCell(sheets, EndSheet, A1) # Undefined
  /\ isCellError(last.out.res)
  /\ last.out.res.code = ERROR.REF

\* the addresses of the grid the ranges lie in, by row and column
Grid == << <<A1, B1>>, <<A2, B2>> >>

StartRowCol == a1ToRowCol(toUpperCase(endpointA1(last.node.start)))

EndRowCol == a1ToRowCol(toUpperCase(endpointA1(last.node.end)))

\* C16: the value of a Range on one sheet is the sequence of one element per
\* cell of the rectangle, rows from the smaller to the larger row and, within
\* a row, columns from the smaller to the larger column, whichever way round
\* the endpoints are; each element is what evaluateCell returns for the cell,
\* an error included.
RangeValueRowMajor ==
  (RangeNodeEvaluated /\ StartSheet = EndSheet)
    => LET rmin == Min(StartRowCol.row, EndRowCol.row)
           rmax == Max(StartRowCol.row, EndRowCol.row)
           cmin == Min(StartRowCol.col, EndRowCol.col)
           cmax == Max(StartRowCol.col, EndRowCol.col)
           w    == cmax - cmin + 1
       IN  /\ last.out.res.t = "arr"
           /\ Len(last.out.res.v) = (rmax - rmin + 1) * w
           /\ \A r \in rmin..rmax : \A c \in cmin..cmax :
                last.out.res.v[(r - rmin) * w + (c - cmin) + 1]
                  = evaluate(sheets, registry, StartSheet, Grid[r][c]).res

\* the range B2:A1 was evaluated to four elements, the DIV0 error of B1 second
\* and the number of A2 third
ReversedRangeEvaluated ==
  /\ RangeNodeEvaluated
  /\ last.node = RangeNode(B2, A1)
  /\ last.sheetName = SheetS
  /\ getCell(sheets, SheetS, A1) = Num(1)
  /\ getCell(sheets, SheetS, B1) = FormulaDivZero
  /\ getCell(sheets, SheetS, A2) = Num(2)
  /\ Len(last.out.res.v) = 4
  /\ last.out.res.v[1] = Num(1)
  /\ isCellError(last.out.res.v[2])
  /\ last.out.res.v[3] = Num(2)
  /\ last.out.res.v[4] = Undefined

\* the two endpoint texts of a range text with one colon
rangeEndpoints(text) ==
  LET c == SetMin(Positions(text, ":"))
  IN  <<SubSeq(text, 1, c - 1), SubSeq(text, c + 1, Len(text))>>

\* the range text of the latest range call has one colon and a sheet
\* qualifier on exactly one of its endpoints
OneEndpointQualified ==
  /\ last.op \in {"getRange", "setRange"}
  /\ Cardinality(Positions(last.rangeStr, ":")) = 1
  /\ Cardinality({k \in 1..2 : Positions(rangeEndpoints(last.rangeStr)[k], "!") # {}}) = 1

\* the sheet that qualified endpoint names
QualifiedSheet ==
  LET k == CHOOSE i \in 1..2 : Positions(rangeEndpoints(last.rangeStr)[i], "!") # {}
  IN  endpointSheet(rangeEndpoints(last.rangeStr)[k], last.sheetName)

\* C15 as stated: getRange and setRange resolve a range text with a sheet
\* qualifier on exactly one endpoint, the first (T!A1:A2) or the second
\* (A1:T!A2), on the qualified sheet and not on the sheet of the call.
OneSidedQualifierTakesSheet ==
  (OneEndpointQualified /\ ~isThrown(last.result))
    => last.result.sheet = QualifiedSheet

\* ------------------------------------------------------------------------
\* SpecAddr: the cell A1 of two sheets, written under its canonical address
\* and under a marked one, read through every textual form of its address:
\* by evaluateCell and by a formula in B1 that is one reference.
\* ------------------------------------------------------------------------

\* the textual forms of the address A1
VariantsA1 == {A1, <<"a","1">>, <<"$","A","$","1">>, <<"$","A","1">>, <<"A","$","1">>, <<"$","a","$","1">>, <<"$","a","1">>, <<"a","$","1">>}

AddrFormulas ==
  { Str(<<"=","A","1">>), Str(<<"=","a","1">>), Str(<<"=","$","A","$","1">>), Str(<<"=","$","a","1">>), Str(<<"=","A","$","1">>), Str(<<"=","T","!","$","a","$","1">>),
    Str(<<"=","S","!","a","1">>) }

AddrAddresses == {A1, <<"a","1">>, <<"$","A","$","1">>, <<"$","A","1">>, <<"A","$","1">>, B1, <<"T","!","a","$","1">>, <<"S","!","$","A","1">>}

NextAddr ==
  \/ \E s \in StoreSheets, v \in {Num(1), Num(2)} : SetCell(s, A1, v)
  \/ SetCell(SheetS, <<"$","A","$","1">>, Num(3))
  \/ \E s \in StoreSheets, f \in AddrFormulas : SetCell(s, B1, f)
  \/ \E s \in StoreSheets, a \in AddrAddresses : EvaluateCell(s, a)

SpecAddr == InitEval /\ [][NextAddr]_vars

\* evaluateCell was called with a textual form of A1, with or without a sheet
VariantEvaluated ==
  /\ Evaluated
  /\ endpointA1(last.address) \in VariantsA1

\* the reference of the formula evaluated, when the formula is one reference
\* to A1 in some textual form
EvaluatedRefText ==
  Tail(getCell(sheets, EvaluatedCell.sheet, EvaluatedCell.addr).v)

VariantReferenceEvaluated ==
  /\ EvaluatedValid
  /\ EvaluatedFormula
  /\ endpointA1(EvaluatedRefText) \in VariantsA1

\* C17: evaluateCell returns, for every textual form of the address A1, what
\* it returns for A1 on the sheet the address names or else on the sheet of
\* the call; a formula that is a reference to A1 in any textual form
\* evaluates to the same value as A1 on the sheet the reference names or else
\* on the sheet of the formula's cell.
AddressFormDoesNotMatter ==
  /\ VariantEvaluated
       => last.out.res
            = evaluate(sheets, registry, endpointSheet(last.address, last.sheetName), A1).res
  /\ VariantReferenceEvaluated
       => last.out.res
            = evaluate(sheets, registry,
                       endpointSheet(EvaluatedRefText, EvaluatedCell.sheet), A1).res

\* a formula on sheet S that refers to T!$a$1 was evaluated to the number in
\* A1 of sheet T, which differs from the one in A1 of sheet S
QualifiedMarkedReferenceEvaluated ==
  /\ VariantReferenceEvaluated
  /\ EvaluatedCell.sheet = SheetS
  /\ EvaluatedRefText = <<"T","!","$","a","$","1">>
  /\ getCell(sheets, SheetT, A1) = Num(2)
  /\ getCell(sheets, SheetS, A1) = Num(1)
  /\ last.out.res = Num(2)

\* ------------------------------------------------------------------------
\* SpecPass: cells that hold what a host may store (a number, a logical,
\* text, text with an equals sign after a blank, an error value, a table of
\* rows) and formulas that hand them to the function registered as Table,
\* which returns its arguments.
\* ------------------------------------------------------------------------

TableOfRows ==
  Arr(<<Arr(<<Num(1), Str(<<"a">>)>>), Arr(<<Num(3), Str(<<"b">>)>>)>>)

PassValues ==
  { Num(1), Bool(TRUE), Str(<<"1","+","2">>), Str(<<" ","=","B","1">>), err(ERROR.NA, <<"stored">>), TableOfRows }

PassFormulas == { Str(<<"=","T","A","B","L","E","(","A","2",")">>), Str(<<"=","T","a","b","l","e","(","b","1",",","A","2",")">>), Str(<<"=","A","2">>) }

NextPass ==
  \/ \E f \in PassFormulas : SetCell(SheetS, A1, f)
  \/ \E a \in ArithOperandCells, v \in PassValues : SetCell(SheetS, a, v)
  \/ \E a \in EvalCells : EvaluateCell(SheetS, a)

SpecPass == InitEval /\ [][NextPass]_vars

\* the content of the cell evaluated
EvaluatedContent == getCell(sheets, EvaluatedCell.sheet, EvaluatedCell.addr)

\* the formula evaluated is a call of the function registered as Table whose
\* arguments are references to cells that hold no formula
TableOfPlainCellsEvaluated ==
  /\ EvaluatedValid
  /\ EvaluatedFormula
  /\ ~isThrown(EvaluatedParse)
  /\ EvaluatedParse.type = "Call"
  /\ toUpperCase(EvaluatedParse.name) = toUpperCase(NameTable)
  /\ EvaluatedParse.args # <<>>
  /\ ArgsArePlainCells

\* the contents of the cells the arguments of the call evaluated refer to
ArgContents ==
  [k \in 1..Len(EvaluatedParse.args) |->
     getCell(sheets, EvaluatedCell.sheet,
             normalizeAddress(EvaluatedParse.args[k].ref, EvaluatedCell.sheet).addr)]

\* C18: evaluateCell on a cell whose content is not text that begins with the
\* equals sign returns the content as stored (absent for an empty cell), and
\* a function called with references to such cells receives the contents as
\* stored, in argument order.
PlainContentPassesThrough ==
  /\ (EvaluatedValid /\ ~(EvaluatedContent.t = "str" /\ EvaluatedContent.v # <<>>
                          /\ EvaluatedContent.v[1] = "="))
       => last.out.res = EvaluatedContent
  /\ TableOfPlainCellsEvaluated => last.out.res = Arr(ArgContents)

\* the table of rows stored in A2 was handed to the function as it is, after
\* the text with an equals sign behind a blank stored in B1
TableHandedVerbatim ==
  /\ TableOfPlainCellsEvaluated
  /\ Len(EvaluatedParse.args) = 2
  /\ getCell(sheets, SheetS, A2) = TableOfRows
  /\ getCell(sheets, SheetS, B1) = Str(<<" ","=","B","1">>)
  /\ last.out.res = Arr(<<Str(<<" ","=","B","1">>), TableOfRows>>)

\* ------------------------------------------------------------------------
\* SpecRegistry: a registry that starts empty; the built-ins and user
\* functions are registered under names in several cases, and names in
\* further cases are looked up.
\* ------------------------------------------------------------------------

RegNames == {<<"s","u","m">>, <<"S","u","m">>, NameBoom}

\* user implementations: the one that raises and the one that returns its
\* arguments
RegImpls == {"boom", "table"}

QueryNames == {<<"s","u","m">>, <<"S","U","M">>, <<"s","U","m">>, NameBoom, <<"B","O","O","M">>, <<"i","f">>, <<"N","o","p","e">>}

NextRegistry ==
  \/ RegisterBuiltins
  \/ \E n \in RegNames, f \in RegImpls : RegisterFunction(n, f)
  \/ \E n \in QueryNames : HasFunction(n)
  \/ \E n \in QueryNames : GetFunction(n)
  \/ Names

SpecRegistry == Init /\ [][NextRegistry]_vars

\* two names that differ at most in the case of their letters
isCaseVariant(a, b) ==
  /\ Len(a) = Len(b)
  /\ \A i \in 1..Len(a) :
       \/ a[i] = b[i]
       \/ /\ a[i] \in AlphaSet
          /\ b[i] \in AlphaSet
          /\ LetterIndex(a[i]) = LetterIndex(b[i])

\* the names the registry holds a registration for, as registered
RegisteredNames == {registry.originalNames[k] : k \in DOMAIN registry.originalNames}

RegisteredVariant(name) == \E n \in RegisteredNames : isCaseVariant(n, name)

\* C19: a name is found by has and by get exactly when a case variant of it
\* has been registered; get then returns the implementation get returns for
\* the registered name, and right after register(N, fn) every case variant of
\* N is found with the implementation fn. A name registered under no case
\* variant is not found: has is false and get is undefined.
RegistryLookupIgnoresCase ==
  /\ last.op = "hasFunction" => (last.result <=> RegisteredVariant(last.name))
  /\ last.op = "getFunction" =>
       IF RegisteredVariant(last.name)
       THEN /\ last.result # "undefined"
            /\ \A n \in RegisteredNames :
                 isCaseVariant(n, last.name) => last.result = get(registry, n)
       ELSE last.result = "undefined"
  /\ last.op = "registerFunction" =>
       \A n \in QueryNames \cup RegNames :
         isCaseVariant(n, last.name) => (has(registry, n) /\ get(registry, n) = last.fn)

\* a function registered as Sum was found under the name sUm
MixedCaseFound ==
  /\ last.op = "getFunction"
  /\ last.name = <<"s","U","m">>
  /\ <<"S","u","m">> \in RegisteredNames
  /\ last.result = "table"

\* C20: the registry holds one entry per upper-case name. names() lists one
\* name per key and no two case variants of one name; after register(N, fn),
\* get(N) is fn and names() lists N in the case just registered in place of
\* any case variant listed before, and every other entry is as it was.
RegistryOneEntryPerKey ==
  /\ Len(names(registry)) = Cardinality(DOMAIN registry.map)
  /\ \A i, j \in 1..Len(names(registry)) :
       i # j => ~isCaseVariant(names(registry)[i], names(registry)[j])
  /\ last.op = "names" => last.result = names(registry)
  /\ last.op = "registerFunction" =>
       /\ get(registry, last.name) = last.fn
       /\ last.name \in Range(names(registry))
       /\ \A n \in QueryNames :
            ~isCaseVariant(n, last.name) => get(registry, n) = get(last.before, n)
       /\ \A x \in Range(names(last.before)) :
            ~isCaseVariant(x, last.name) => x \in Range(names(registry))
       /\ Len(names(registry))
            = Len(names(last.before))
              + (IF \E x \in Range(names(last.before)) : isCaseVariant(x, last.name)
                 THEN 0 ELSE 1)

\* a function registered as sum was registered again as Sum with another
\* implementation: the list of names has Sum and no longer sum
RegisteredAgainInOtherCase ==
  /\ last.op = "registerFunction"
  /\ last.name = <<"S","u","m">>
  /\ last.fn = "table"
  /\ <<"s","u","m">> \in Range(names(last.before))
  /\ get(last.before, <<"s","u","m">>) = "boom"
  /\ get(registry, <<"s","u","m">>) = "table"
  /\ <<"S","u","m">> \in Range(names(registry))
  /\ <<"s","u","m">> \notin Range(names(registry))

\* ------------------------------------------------------------------------
\* SpecColumn: the column utilities. A row and a column number are turned
\* into an address, and the address just produced, or the same address in
\* lower case or with absolute markers, is turned back into numbers.
\* ------------------------------------------------------------------------

\* columns up to MaxColumn: A..Z, AA..ZZ and the first three-letter columns
MaxColumn == 710

ColumnRows == {12}

\* the address as the caller may also write it
addressForms(a1) == {a1, [i \in 1..Len(a1) |-> IF a1[i] \in UpperSet
                                                THEN LowerLetters[LetterIndex(a1[i])]
                                                ELSE a1[i]]}

\* the texts handed back: the forms of the address just produced
ProducedForms ==
  IF last.op = "rowColToA1" THEN addressForms(last.result) ELSE {}

NextColumn ==
  \/ \E row \in ColumnRows, col \in 1..MaxColumn : RowColToA1(row, col)
  \/ \E a1 \in ProducedForms : A1ToRowCol(a1)

SpecColumn == Init /\ [][NextColumn]_vars

ColumnConverted == last.op = "rowColToA1"

\* the letters of the address produced: what is left without the row digits
ProducedLetters ==
  SubSeq(last.result, 1, Len(last.result) - Len(natToString(last.row)))

\* C21: for every column number n >= 1 the letters produced are upper-case
\* letters, read back they give n again (and the row digits give the row),
\* and A is 1, Z is 26, AA is 27.
ColumnRoundTrip ==
  ColumnConverted =>
    /\ ProducedLetters # <<>>
    /\ \A i \in 1..Len(ProducedLetters) : ProducedLetters[i] \in UpperSet
    /\ columnLettersToIndex(ProducedLetters) = last.col
    /\ a1ToRowCol(last.result) = [t |-> "rowcol", row |-> last.row, col |-> last.col]
    /\ (last.col = 1 <=> ProducedLetters = <<"A">>)
    /\ (last.col = 26 <=> ProducedLetters = <<"Z">>)
    /\ (last.col = 27 <=> ProducedLetters = <<"A","A">>)

\* the first three-letter column, 703, was converted to AAA
ThreeLetterColumnConverted ==
  /\ ColumnConverted
  /\ last.col = 703
  /\ last.row = 12
  /\ last.result = <<"A","A","A","1","2">>

\* ------------------------------------------------------------------------
\* SpecLookup: the lookup built-ins. The host evaluates call nodes whose
\* arguments are literal values: targets, lists, tables of rows, row, column
\* and mode arguments.
\* ------------------------------------------------------------------------

NameVlookup == <<"V","L","O","O","K","U","P">>

Row2(k, v) == Arr(<<k, v>>)

\* tables of rows: ascending, ascending with a repeated key, two that are not
\* ascending, an empty one, a list of values, one keyed by text, one whose
\* rows have a single column
LookupTables ==
  { Arr(<<Row2(Num(1), Str(<<"a">>)), Row2(Num(3), Str(<<"b">>)), Row2(Num(5), Str(<<"c">>))>>),
    Arr(<<Row2(Num(1), Str(<<"a">>)), Row2(Num(3), Str(<<"b">>)), Row2(Num(3), Str(<<"c">>)),
          Row2(Num(5), Str(<<"d">>))>>),
    Arr(<<Row2(Num(5), Str(<<"c">>)), Row2(Num(1), Str(<<"a">>)), Row2(Num(3), Str(<<"b">>))>>),
    Arr(<<Row2(Num(1), Str(<<"a">>)), Row2(Num(5), Str(<<"c">>)), Row2(Num(3), Str(<<"b">>))>>),
    Arr(<<>>),
    Arr(<<Num(1), Num(3), Num(5)>>),
    Arr(<<Row2(Str(<<"a">>), Num(1)), Row2(Str(<<"b">>), Num(2)), Row2(Str(<<"d">>), Num(3))>>),
    Arr(<<Arr(<<Num(1)>>), Arr(<<Num(3)>>)>>) }

LookupTargets == {Num(0), Num(2), Num(3), Num(4), Num(9), Str(<<"b">>)}

LookupColumns == {Num(1), Num(2)}

\* the fourth argument: left out, or given
SortedArgs == {<<>>, <<Literal(Bool(TRUE))>>, <<Literal(Num(1))>>, <<Literal(Bool(FALSE))>>}

VlookupCalls ==
  { CallNode(NameVlookup, <<Literal(k), Literal(tb), Literal(c)>> \o s) :
      k \in LookupTargets, tb \in LookupTables, c \in LookupColumns, s \in SortedArgs }

NextLookup ==
  \E node \in VlookupCalls : EvaluateAst(SheetS, node)

SpecLookup == InitEval /\ [][NextLookup]_vars

\* the order the claims speak of: numbers by value, texts by their characters;
\* a number and a text are not ordered
atMost(a, b) ==
  \/ a.t = "num" /\ b.t = "num" /\ a.n * b.d <= b.n * a.d
  \/ a.t = "str" /\ b.t = "str" /\ ~stringLess(b.v, a.v)

sameKind(a, b) == a.t = b.t /\ a.t \in {"num", "str"}

CallEvaluated(name) ==
  /\ last.op = "evaluateAst"
  /\ last.node.type = "Call"
  /\ last.node.name = name

ArgValue(i) == last.node.args[i].value

LookupRows == ArgValue(2).v

\* VLOOKUP was called in sorted mode on a table of rows whose keys are of the
\* kind of the target, for a column that every row has
SortedLookupEvaluated ==
  /\ CallEvaluated(NameVlookup)
  /\ Len(last.node.args) = 3 \/ truthy(ArgValue(4))
  /\ ArgValue(2).t = "arr"
  /\ \A r \in 1..Len(LookupRows) :
       /\ LookupRows[r].t = "arr"
       /\ ArgValue(3).n <= Len(LookupRows[r].v)
       /\ sameKind(LookupRows[r].v[1], ArgValue(1))

RowsAtMostTarget == { r \in 1..Len(LookupRows) : atMost(LookupRows[r].v[1], ArgValue(1)) }

SetMax(S) == CHOOSE x \in S : \A y \in S : x >= y

isNaError(v) == isCellError(v) /\ v.code = ERROR.NA

LastRowAtMostTarget ==
  IF RowsAtMostTarget = {} THEN isNaError(last.out.res)
  ELSE last.out.res = LookupRows[SetMax(RowsAtMostTarget)].v[ArgValue(3).n]

FirstColumnAscending ==
  \A i, j \in 1..Len(LookupRows) :
    i < j => atMost(LookupRows[i].v[1], LookupRows[j].v[1])

\* C22 as stated: in sorted mode VLOOKUP returns, for every table, the
\* requested column of the last row of the table whose key is <= the target,
\* and NA when no row has such a key.
VlookupLastRowOfAnyTable == SortedLookupEvaluated => LastRowAtMostTarget

\* C22: in sorted mode, for a table whose first column is ascending, VLOOKUP
\* returns the requested column of the last row whose key is <= the target,
\* and NA when no row has such a key.
VlookupLastRowOfAscendingTable ==
  (SortedLookupEvaluated /\ FirstColumnAscending) => LastRowAtMostTarget

\* the target 3 was looked up in the table with keys 1, 3, 3, 5: the second of
\* the rows keyed 3 gave the result
RepeatedKeyLookedUp ==
  /\ SortedLookupEvaluated
  /\ FirstColumnAscending
  /\ Len(LookupRows) = 4
  /\ ArgValue(1) = Num(3)
  /\ ArgValue(3) = Num(2)
  /\ last.out.res = Str(<<"c">>)

\* ------------------------------------------------------------------------
\* SpecMatch: MATCH over lists of values
\* ------------------------------------------------------------------------

NameMatch == <<"M","A","T","C","H">>

\* lists: ascending, ascending with a repeated value, of one element, empty,
\* of texts, two that are not ascending, and a single value that is no list
MatchLists ==
  { Arr(<<Num(1), Num(3), Num(5)>>),
    Arr(<<Num(1), Num(3), Num(3), Num(5)>>),
    Arr(<<Num(3)>>),
    Arr(<<>>),
    Arr(<<Str(<<"a">>), Str(<<"b">>), Str(<<"d">>)>>),
    Arr(<<Num(5), Num(1), Num(3)>>),
    Arr(<<Num(3), Num(1), Num(3)>>),
    Num(3) }

\* the third argument: left out, or given
MatchTypeArgs ==
  {<<>>, <<Literal(Num(1))>>, <<Literal(Num(0))>>, <<Literal(Num(-1))>>,
   <<Literal(Bool(TRUE))>>}

MatchCalls ==
  { CallNode(NameMatch, <<Literal(k), Literal(xs)>> \o mt) :
      k \in LookupTargets, xs \in MatchLists, mt \in MatchTypeArgs }

NextMatch ==
  \E node \in MatchCalls : EvaluateAst(SheetS, node)

SpecMatch == InitEval /\ [][NextMatch]_vars

MatchList == ArgValue(2).v

MatchEvaluated ==
  /\ CallEvaluated(NameMatch)
  /\ ArgValue(2).t = "arr"

\* match_type 1 or left out, on an ascending list of values of the kind of
\* the target
AscendingMatchEvaluated ==
  /\ MatchEvaluated
  /\ Len(last.node.args) = 2 \/ ArgValue(3) = Num(1)
  /\ \A i \in 1..Len(MatchList) : sameKind(MatchList[i], ArgValue(1))
  /\ \A i, j \in 1..Len(MatchList) : i < j => atMost(MatchList[i], MatchList[j])

ExactMatchEvaluated ==
  /\ MatchEvaluated
  /\ Len(last.node.args) = 3
  /\ ArgValue(3) = Num(0)

PositionsAtMostTarget == { i \in 1..Len(MatchList) : atMost(MatchList[i], ArgValue(1)) }

PositionsOfTarget == { i \in 1..Len(MatchList) : MatchList[i] = ArgValue(1) }

\* C23: with match_type 1 or left out, over an ascending list, MATCH returns
\* the last position whose element is <= the target, which holds the largest
\* such element, and NA when every element is greater; with match_type 0 it
\* returns the first position whose element equals the target, NA when none.
MatchPositions ==
  /\ AscendingMatchEvaluated =>
       IF PositionsAtMostTarget = {} THEN isNaError(last.out.res)
       ELSE /\ last.out.res = Num(SetMax(PositionsAtMostTarget))
            /\ \A i \in PositionsAtMostTarget :
                 atMost(MatchList[i], MatchList[SetMax(PositionsAtMostTarget)])
  /\ ExactMatchEvaluated =>
       IF PositionsOfTarget = {} THEN isNaError(last.out.res)
       ELSE last.out.res = Num(SetMin(PositionsOfTarget))

\* the target 3 was matched in 1, 3, 3, 5 with match_type left out: position 3
RepeatedValueMatched ==
  /\ AscendingMatchEvaluated
  /\ Len(last.node.args) = 2
  /\ Len(MatchList) = 4
  /\ ArgValue(1) = Num(3)
  /\ last.out.res = Num(3)

\* ------------------------------------------------------------------------
\* SpecIndex: INDEX over lists, arrays of rows and values that are no array
\* ------------------------------------------------------------------------

NameIndex == <<"I","N","D","E","X">>

IndexArrays ==
  { Arr(<<Num(10), Num(20), Num(30)>>),
    Arr(<<Arr(<<Num(1), Num(2)>>), Arr(<<Num(3), Num(4)>>)>>),
    Arr(<<>>),
    Num(7),
    Str(<<"a","b">>) }

IndexNumbers == {Num(-1), Num(0), Num(1), Num(2), Num(3), Num(4)}

\* the column argument: left out, or given
IndexColumnArgs == {<<>>} \cup { <<Literal(c)>> : c \in IndexNumbers \ {Num(4)} }

IndexCalls ==
  { CallNode(NameIndex, <<Literal(a), Literal(r)>> \o c) :
      a \in IndexArrays, r \in IndexNumbers, c \in IndexColumnArgs }

NextIndex ==
  \E node \in IndexCalls : EvaluateAst(SheetS, node)

SpecIndex == InitEval /\ [][NextIndex]_vars

isRefError(v) == isCellError(v) /\ v.code = ERROR.REF

isValueError(v) == isCellError(v) /\ v.code = ERROR.VALUE

IndexArray == ArgValue(1)

\* INDEX was called with a row number on a list, or with a row and a column
\* number on an array of rows
ListIndexed ==
  /\ CallEvaluated(NameIndex)
  /\ IndexArray.t = "arr"
  /\ Len(last.node.args) = 2
  /\ \A i \in 1..Len(IndexArray.v) : IndexArray.v[i].t # "arr"

RowsIndexed ==
  /\ CallEvaluated(NameIndex)
  /\ IndexArray.t = "arr"
  /\ Len(last.node.args) = 3
  /\ IndexArray.v # <<>>
  /\ \A i \in 1..Len(IndexArray.v) : IndexArray.v[i].t = "arr"

IndexOfBounds ==
  /\ ListIndexed =>
       IF ArgValue(2).n \in 1..Len(IndexArray.v)
       THEN last.out.res = IndexArray.v[ArgValue(2).n]
       ELSE isRefError(last.out.res)
  /\ RowsIndexed =>
       IF /\ ArgValue(2).n \in 1..Len(IndexArray.v)
          /\ ArgValue(3).n \in 1..Len(IndexArray.v[ArgValue(2).n].v)
       THEN last.out.res = IndexArray.v[ArgValue(2).n].v[ArgValue(3).n]
       ELSE isRefError(last.out.res)
  /\ (CallEvaluated(NameIndex) /\ IndexArray.t # "arr") => isValueError(last.out.res)

\* C24: INDEX returns REF for every row or column number outside the 1-based
\* bounds of the array, row 0 and column 0 included, the addressed element
\* for numbers within the bounds, and VALUE when the first argument is no
\* array.
IndexOutOfBoundsIsRef == IndexOfBounds

NoZeroIndex ==
  \A i \in 2..Len(last.node.args) : ArgValue(i) # Num(0)

\* the same for calls whose row and column numbers are not 0
IndexOutOfBoundsIsRefButZero ==
  (CallEvaluated(NameIndex) /\ NoZeroIndex) => IndexOfBounds

\* row 0 of the list 10, 20, 30 was asked for
RowZeroIndexed ==
  /\ ListIndexed
  /\ Len(IndexArray.v) = 3
  /\ ArgValue(2) = Num(0)

\* ------------------------------------------------------------------------
\* SpecProxy: requests to the proxy route. A request has a path, a query
\* string and a JSON body that names a model; the key is set or missing in
\* the environment; the upstream API answers or the fetch fails.
\* ------------------------------------------------------------------------

ProxyPaths ==
  { <<"/","a","p","i","/","g","r","o","q","/","o","p","e","n","a","i","/","v","1","/","c","h","a","t","/","c","o","m","p","l","e","t","i","o","n","s">>, <<"/","a","p","i","/","g","r","o","q","/","c","h","a","t","/","c","o","m","p","l","e","t","i","o","n","s">>,
    <<"/","a","p","i","/","g","r","o","q","/","o","p","e","n","a","i","/","v","1","/","m","o","d","e","l","s">>, <<"/","a","p","i","/","g","r","o","q">>,
    <<"/","x","/","a","p","i","/","g","r","o","q","/","y","/","a","p","i","/","g","r","o","q","/","c","h","a","t","/","c","o","m","p","l","e","t","i","o","n","s">> }

ModelSmall == <<"o","p","e","n","a","i","/","g","p","t","-","o","s","s","-","2","0","b">>
ModelLarge == <<"o","p","e","n","a","i","/","g","p","t","-","o","s","s","-","1","2","0","b">>

\* the models the chat offers, two others, and a body without a model
ProxyModels == {ModelSmall, ModelLarge, <<"i","n","v","a","l","i","d">>, <<"l","l","a","m","a","-","3",".","3","-","7","0","b","-","v","e","r","s","a","t","i","l","e">>, <<>>}

ProxyBodies == { [model |-> m, messages |-> <<>>] : m \in ProxyModels }

ProxyRequests ==
  { [method |-> "POST", pathname |-> p, search |-> q, body |-> b] :
      p \in ProxyPaths, q \in {<<>>, <<"?","s","t","r","e","a","m","=","1">>}, b \in ProxyBodies }

ProxyKeys == {<<"t","e","s","t","-","k","e","y">>, <<>>}

FetchOutcomes ==
  { [t |-> "response", status |-> 200], [t |-> "response", status |-> 429],
    Thrown(<<"fetch failed">>) }

NextProxy ==
  \E req \in ProxyRequests, apiKey \in ProxyKeys, res \in FetchOutcomes :
    ProxyPost(req, apiKey, res)

SpecProxy == Init /\ [][NextProxy]_vars

\* the approved list: the models the chat offers
ApprovedModels == {ModelSmall, ModelLarge}

\* a chat-completions request reached the handler while the key was set
ChatCompletionsPosted ==
  /\ last.op = "proxyPost"
  /\ last.apiKey # <<>>
  /\ relativePath(last.req.pathname) \in ChatCompletionsPaths

\* C25: a chat-completions request that names a model outside the approved
\* list is answered with status 400 and an error and nothing is sent
\* upstream; one that names an approved model is sent upstream.
ProxyEnforcesApprovedModels ==
  ChatCompletionsPosted =>
    IF last.req.body.model \in ApprovedModels
    THEN last.response.sent # <<>>
    ELSE /\ last.response.status = 400
         /\ last.response.error # <<>>
         /\ last.response.sent = <<>>

\* the part of it that holds: a request that names an approved model is sent
\* upstream with the body it came with
ApprovedModelForwarded ==
  (ChatCompletionsPosted /\ last.req.body.model \in ApprovedModels) =>
    /\ last.response.sent # <<>>
    /\ last.response.sent[1].body = last.req.body

\* the request of the test went upstream and the upstream answer came back
UnapprovedModelForwarded ==
  /\ ChatCompletionsPosted
  /\ last.req.body.model = <<"i","n","v","a","l","i","d">>
  /\ last.response.sent # <<>>
  /\ last.response.status = 200

\* ------------------------------------------------------------------------
\* SpecReads: reads of a workbook. The built-ins are registered; cells of
\* sheet S are written with numbers and formulas, some of which end in an
\* error; cells and ranges of S and of a sheet T that does not exist are
\* read, looked up and evaluated.
\* ------------------------------------------------------------------------

InitReads ==
  /\ sheets = <<>>
  /\ registry = registerBuiltins(EmptyRegistry)
  /\ last = [op |-> "new"]
  /\ nwrites = 0
  /\ aiCache = <<>>
  /\ aiInFlight = {}
  /\ aiCalls = <<>>

ReadCells == {A1, B1}

ReadContents ==
  { Num(2), Str(<<"=","S","U","M","(","A","1",":","A","2",")">>), Str(<<"=","V","L","O","O","K","U","P","(","2",",","A","1",":","A","1",",","1",")">>), Str(<<"=","1","/","0">>),
    Str(<<"=","B","1">>), Str(<<"=","T","!","A","1","+","1">>), Str(<<"=","N","O","P","E","(",")">>), Str(<<"=","(","1">>) }

ReadAddresses == {A1, B1, <<"T","!","A","1">>, <<"$","$">>}

ReadRanges == {<<"A","1",":","B","1">>, <<"T","!","A","1",":","A","2">>, <<"A","1">>}

NextReads ==
  \/ \E a \in ReadCells, v \in ReadContents : SetCell(SheetS, a, v)
  \/ \E s \in {SheetS, SheetT}, a \in ReadAddresses : GetCell(s, a)
  \/ \E s \in {SheetS, SheetT}, a \in ReadAddresses : EvaluateCell(s, a)
  \/ \E s \in {SheetS, SheetT}, r \in ReadRanges, mode \in Modes : GetRange(s, r, mode)

SpecReads == InitReads /\ [][NextReads]_vars

ReadOps == {"getCell", "evaluateCell", "getRange"}

\* C26: a step that is a getCell, evaluateCell or getRange call leaves every
\* sheet map, the set of sheet names and the registry as they were.
ReadsLeaveStore ==
  [][last'.op \in ReadOps => (sheets' = sheets /\ registry' = registry)]_vars

\* a cell of the missing sheet T was evaluated through a reference from a
\* formula of S, the evaluation ended in an error, and T is still missing
MissingSheetEvaluated ==
  /\ last.op = "evaluateCell"
  /\ last.sheetName = SheetS
  /\ last.address = A1
  /\ getCell(sheets, SheetS, A1) = Str(<<"=","T","!","A","1","+","1">>)
  /\ isCellError(last.out.res)
  /\ SheetT \notin DOMAIN sheets

\* ------------------------------------------------------------------------
\* SpecSetRange: setRange calls that raise. Range texts that are well
\* formed, without a colon and with an endpoint that is no address; values
\* that fit, are of another shape, are ragged and are no matrix; sheets that
\* exist and that do not.
\* ------------------------------------------------------------------------

SetRangeTexts == {<<"A","1",":","A","2">>, <<"A","1">>, <<"A","1",":","1","A">>, <<"T","!","A","1",":","A","1">>, <<":">>}

SetRangeValues ==
  { Matrix(<< <<Num(1)>>, <<Num(2)>> >>),
    Matrix(<< <<Num(7)>> >>),
    Matrix(<< <<Num(1), Num(2)>> >>),
    Matrix(<< <<Num(1)>>, <<Num(2), Num(3)>> >>),
    Matrix(<< <<>> >>),
    Arr(<<Num(1), Num(2)>>),
    Arr(<<>>),
    Num(5) }

NextSetRange ==
  \/ \E s \in RangeSheets : SetCell(s, A1, Num(9))
  \/ \E s \in RangeSheets, r \in SetRangeTexts, v \in SetRangeValues : SetRange(s, r, v)

SpecSetRange == Init /\ [][NextSetRange]_vars

\* C27: a setRange call that raises leaves the workbook as it found it: no
\* cell is written and no sheet is created.
SetRangeRaiseWritesNothing ==
  [][(last'.op = "setRange" /\ isThrown(last'.result)) => sheets' = sheets]_vars

SetRangeRaised == last.op = "setRange" /\ isThrown(last.result)

\* a matrix of another shape than the range was handed to setRange on a
\* workbook without sheets, and the call raised
SetRangeShapeRaised ==
  /\ SetRangeRaised
  /\ last.sheetsBefore = {}
  /\ sheets = <<>>
  /\ last.rangeStr = <<"A","1",":","A","2">>
  /\ last.values = Matrix(<< <<Num(1), Num(2)>> >>)

\* ------------------------------------------------------------------------
\* SpecDiamond: cells reached several times in one evaluation. A formula
\* refers to a cell directly and through another cell, directly and inside a
\* range, or twice; other workbooks of the same cells hold a cycle.
\* ------------------------------------------------------------------------

StoredCycleError == err(ERROR.CYCLE, <<"stored">>)

DiamondContents ==
  { Num(2), Str(<<"=","A","2","+","B","1">>), Str(<<"=","B","1">>), Str(<<"=","A","2","+","A","2">>), Str(<<"=","A","2","+","S","U","M","(","A","2",":","A","2",")">>),
    Str(<<"=","S","U","M","(","A","2",":","B","1",")">>), StoredCycleError }

DiamondCells == {A1, A2, B1}

NextDiamond ==
  \/ \E a \in DiamondCells, v \in DiamondContents : SetCell(SheetS, a, v)
  \/ \E a \in DiamondCells : EvaluateCell(SheetS, a)

SpecDiamond == InitEval /\ [][NextDiamond]_vars

\* the cell evaluated and the cells reached from it
ReachedCells ==
  {EvaluatedCell} \cup reach(sheets, {EvaluatedCell}, Cardinality(storedCells(sheets)) + 1)

\* no cell reached from the cell evaluated is on a reference cycle
ReachedAcyclic == \A d \in ReachedCells : ~onCycle(sheets, d)

NoStoredCycleError ==
  \A c \in storedCells(sheets) : ~isCycleError(getCell(sheets, c.sheet, c.addr))

\* the number of times the evaluation entered the cell with visit key key
timesEntered(log, key) ==
  Cardinality({ i \in 1..Len(log) : log[i].ev = "enter" /\ log[i].key = key })

\* C28: when the references reached from a cell hold no cycle and no cell
\* stores a CYCLE error, evaluateCell reports no cycle at any cell it enters
\* and returns no CYCLE error, also when it reaches a cell more than once.
NoFalseCycle ==
  (EvaluatedValid /\ ReachedAcyclic /\ NoStoredCycleError) =>
    /\ \A i \in 1..Len(last.out.st.log) : last.out.st.log[i].ev # "cycle"
    /\ ~isCycleError(last.out.res)

\* A1 = A2 + B1 with A2 = B1 was evaluated: B1 was entered twice, once
\* directly and once through A2
DiamondEvaluated ==
  /\ EvaluatedValid
  /\ EvaluatedCell = [sheet |-> SheetS, addr |-> A1]
  /\ getCell(sheets, SheetS, A1) = Str(<<"=","A","2","+","B","1">>)
  /\ getCell(sheets, SheetS, A2) = Str(<<"=","B","1">>)
  /\ ReachedAcyclic
  /\ timesEntered(last.out.st.log, visitKey(SheetS, B1)) = 2
  /\ last.out.res = Num(4)

\* the keys the formulas of the workbook refer to
ReferencedKeys == UNION { refsOf(sheets, c) : c \in storedCells(sheets) }

\* the depth of the evaluateCell call that log[i] records, the outermost call
\* being at depth 1: a call that enters or finds a cycle is one below the
\* calls in progress
depthAt(log, i) == openCalls(SubSeq(log, 1, i - 1)) + 1

CallEvents(log) == { i \in 1..Len(log) : log[i].ev \in {"enter", "cycle"} }

EnterEvents(log) == { i \in 1..Len(log) : log[i].ev = "enter" }

\* C29 as stated: the depth of nested evaluateCell calls never exceeds the
\* number of distinct keys the formulas of the workbook refer to, plus one.
DepthWithinKeysPlusOne ==
  EvaluatedValid =>
    \A i \in CallEvents(last.out.st.log) :
      depthAt(last.out.st.log, i) <= Cardinality(ReferencedKeys) + 1

\* C29: every evaluateCell call ends, and the depth of nested evaluateCell
\* calls never exceeds the number of distinct keys the formulas of the
\* workbook refer to, plus two; the calls that enter a cell stay within that
\* number plus one.
DepthWithinKeysPlusTwo ==
  EvaluatedValid =>
    /\ openCalls(last.out.st.log) = 0
    /\ \A i \in CallEvents(last.out.st.log) :
         depthAt(last.out.st.log, i) <= Cardinality(ReferencedKeys) + 2
    /\ \A i \in EnterEvents(last.out.st.log) :
         depthAt(last.out.st.log, i) <= Cardinality(ReferencedKeys) + 1

\* A1 = A2 + B1, A2 = B1 and B1 = B1 was evaluated at A1: the formulas refer
\* to two keys, and the call that found the cycle at B1 was at depth 4
CycleFoundBelowChain ==
  /\ EvaluatedValid
  /\ EvaluatedCell = [sheet |-> SheetS, addr |-> A1]
  /\ Cardinality(ReferencedKeys) = 2
  /\ \E i \in CallEvents(last.out.st.log) :
       /\ last.out.st.log[i].ev = "cycle"
       /\ depthAt(last.out.st.log, i) = 4

\* ------------------------------------------------------------------------
\* The AI cache under requestAi calls and fetch completions
\* ------------------------------------------------------------------------

\* prompts: two texts, and undefined and 0, which share the key ''
AiPrompts == {Str(<<"p">>), Str(<<"q">>), Undefined, Num(0)}

\* what the fetcher does when invoked
FetcherOutcomes == {[kind |-> "promise"], [kind |-> "throws", e |-> Thrown(<<"b","o","o","m">>)]}

\* how the promise of a fetch settles
FetchResults ==
  {[kind |-> "fulfilled", val |-> Str(<<"o","k">>)],
   [kind |-> "fulfilled", val |-> Undefined],
   [kind |-> "rejected", e |-> Thrown(<<"d","o","w","n">>)],
   [kind |-> "rejected", e |-> Undefined]}

NextAi ==
  \/ \E prompt \in AiPrompts, outcome \in FetcherOutcomes : RequestAi(prompt, outcome)
  \/ \E i \in 1..Cardinality(AiPrompts), result \in FetchResults : SettleFetch(i, result)
  \/ \E prompt \in AiPrompts : GetAiCached(prompt)
  \/ \E prompt \in AiPrompts : HasAiCached(prompt)

SpecAi == Init /\ [][NextAi]_vars

\* the fetcher was invoked at most once per key
FetchedOncePerKey ==
  \A i, j \in DOMAIN aiCalls : aiCalls[i].key = aiCalls[j].key => i = j

\* a requestAi for a prompt that is cached or in flight invokes no fetcher
NoFetchWhenKnown ==
  (/\ last'.op = "requestAi"
   /\ (aiKey(last'.prompt) \in DOMAIN aiCache \/ aiKey(last'.prompt) \in aiInFlight))
  => aiCalls' = aiCalls

\* a cached value stays as it is
CacheKept ==
  \A k \in DOMAIN aiCache : k \in DOMAIN aiCache' /\ aiCache'[k] = aiCache[k]

\* the invocations whose fetch is over
SettledCalls == { i \in DOMAIN aiCalls : aiCalls[i].state # "pending" }

SettledCached == \A i \in SettledCalls : aiCalls[i].key \in DOMAIN aiCache

SettledNotInFlight == \A i \in SettledCalls : aiCalls[i].key \notin aiInFlight

\* C30 as stated: the fetcher is invoked at most once per key, a prompt that
\* is cached or in flight starts no fetch, a cached value is never
\* overwritten, and once a fetch has settled its prompt is in the cache and
\* no longer in flight.
AiSingleFlight ==
  /\ [](FetchedOncePerKey /\ SettledCached /\ SettledNotInFlight)
  /\ [][NoFetchWhenKnown /\ CacheKept]_vars

\* the invocations in which the fetcher returned
ReturnedCalls == { i \in SettledCalls : aiCalls[i].state # "threw" }

\* C30 but for a fetcher that throws before it returns: every clause holds
\* except that the key of such an invocation stays in flight.
AiSingleFlightOfReturningFetcher ==
  /\ [](/\ FetchedOncePerKey
        /\ SettledCached
        /\ \A i \in ReturnedCalls : aiCalls[i].key \notin aiInFlight)
  /\ [][NoFetchWhenKnown /\ CacheKept]_vars

\* a fetch was rejected, its error text is cached, and the prompt was
\* requested again
RejectedThenRequested ==
  /\ last.op = "requestAi"
  /\ \E i \in DOMAIN aiCalls :
       /\ aiCalls[i].state = "rejected"
       /\ aiCalls[i].key = aiKey(last.prompt)
       /\ aiCache[aiCalls[i].key] = <<"d","o","w","n">>

\* the fetcher threw when invoked: its key is cached and in flight
ThrownLeftInFlight ==
  \E i \in DOMAIN aiCalls :
    /\ aiCalls[i].state = "threw"
    /\ aiCalls[i].key \in DOMAIN aiCache
    /\ aiCalls[i].key \in aiInFlight

====
